---- MODULE Spec2Model ----
(***************************************************************************)
(* A model of the MobileSentrix scraping tool.                             *)
(*                                                                         *)
(*  - The change-detection and run-tracking core (Normalizer, State Store, *)
(*    Change Detector, Run Ledger, retention cleanup) is the Python        *)
(*    backend, whose sources are not part of src/.  It is modelled from    *)
(*    spec.md sections 3-7; those definitions carry "spec" in their        *)
(*    comments.                                                            *)
(*  - The presentation layer (static/js/results.js, static/js/main.js) is  *)
(*    modelled from its JavaScript sources.                                *)
(*                                                                         *)
(* Numbers: a number is modelled on two scales, c cents plus e units of     *)
(* 1e-10, with e small (floating point noise): it stands for                *)
(* c * 1e-2 + e * 1e-10.  The 1e-9 tolerance of the code is Epsilon units.  *)
(***************************************************************************)
EXTENDS Integers, Sequences, FiniteSets, TLC

VARIABLES
    \* ---------------- backend (spec.md section 3: persisted state)
    snapshots,      \* Snapshots table: identity -> latest known values
    changes,        \* Changes table: sequence of Change Records, by auto id
    runs,           \* Runs table: run id -> run row
    nextRunId,      \* next run id begin_run hands out
    nextChangeId,   \* next auto id of the Changes table
    lock,           \* per-identity lock of section 5: identity -> holder run
    work,           \* each run's Change Detector pass over one record
    finalizeCalls,  \* finalize_run calls received per run: 0, 1, 2 or more
    now,            \* the clock, in days
    processed,      \* records handed to the Change Detector so far
    lastBatch       \* history: the last record processed and what it emitted

ledgerVars == <<snapshots, changes, runs, nextRunId, nextChangeId, lock, work,
                finalizeCalls, now, processed, lastBatch>>

\* ---------------- dashboard (results.js): one change as the API serves it,
\* and what the dashboard renders for it
VARIABLES
    change,         \* the change object handed to the rendering functions
    view            \* the rendered label, delta and descriptions, or NoView

renderVars == <<change, view>>

\* ---------------- scraper page (main.js): one scraped text and what the
\* normalising functions make of it
VARIABLES
    scraped,        \* the text taken from the page
    normalised      \* the stock value and the price computed from it, or NoResult

normVars == <<scraped, normalised>>

\* ---------------- dashboard (results.js): the paginated list of recent
\* changes
VARIABLES
    currentPage,    \* this.currentPage
    itemsPerPage,   \* this.itemsPerPage
    filters,        \* this.filters
    requests,       \* /api/results/recent requests sent and not answered yet
    latestChanges,  \* this.latestChanges, the items the grid shows
    totalRecords,   \* this.totalRecords
    pagination      \* the page indicator and the Previous and Next buttons

listVars == <<currentPage, itemsPerPage, filters, requests, latestChanges,
              totalRecords, pagination>>

\* ---------------- history page (unnamed/part_000): the sessions loaded and
\* the filters over them
VARIABLES
    historyData,      \* the sessions loaded, normalised
    filteredHistory,  \* the sessions applyFilters kept
    filterState,      \* the filters: search, startDate, endDate, minItems, site
    historyContainer, \* the ids of the session cards shown, newest first
    historyLoads      \* /api/history requests sent and not answered yet

historyVars == <<historyData, filteredHistory, filterState, historyContainer, historyLoads>>

\* ---------------- dashboard (results.js): the scrape job the dashboard
\* tracks, and the job as the server knows it
VARIABLES
    serverJob,      \* the job on the server: its status and last_error, or NoJob
    currentJobId,   \* this.currentJobId
    storedJobId,    \* localStorage results_active_job_id
    jobRequests,    \* requests about the job sent and not answered yet
    pollTimer,      \* the setTimeouts of pollJobStatus that are pending
    pollsInFlight,  \* the status requests of pollJobStatus not yet answered
    jobView,        \* the job panel: status, error box, run meta, live indicator
    lastObserved    \* history: the last job data a response delivered

jobVars ==
    <<serverJob, currentJobId, storedJobId, jobRequests, pollTimer,
      pollsInFlight, jobView, lastObserved>>

\* The category progress of the summary (results.js updateCategoryProgress):
\* the stats of the last summary and the battery drawn from them
VARIABLES
    categoryStats,
    battery

progressVars == <<categoryStats, battery>>

\* The theme of the pages (theme.js): the page shown, its data-bs-theme
\* attribute, its toggle, the browser's storage and colour scheme, and the
\* theme last chosen with the toggle
VARIABLES
    themePage,
    themeAttr,
    toggleChecked,
    storedTheme,
    storageState,
    systemTheme,
    chosenTheme,
    themeStep

themeVars == <<themePage, themeAttr, toggleChecked, storedTheme, storageState, systemTheme, chosenTheme, themeStep>>

\* The extractor page and the results it keeps in the browser (main.js): the
\* time in hours, what localStorage holds under msx_results_v1, the items and
\* models the page shows, and the step taken last
VARIABLES
    extractorClock,
    savedResults,
    rawItems,
    currentModels,
    extractorStep

savedVars == <<extractorClock, savedResults, rawItems, currentModels, extractorStep>>

\* The comparison prices of the extractor page (main.js): the map built from
\* the uploaded file, the item of the row being rendered, and the price
\* looked up for it
VARIABLES
    compareMap,
    cmpItem,
    cmpPrice,
    cmpUpload

compareVars == <<compareMap, cmpItem, cmpPrice, cmpUpload>>

\* ---------------- history page (unnamed/part_000): the cleanup dialog
VARIABLES
    cleanupShown,    \* cleanupModal.modal is displayed
    currentDays,     \* cleanupModal.currentDays
    daysInputValue,  \* cleanupModal.daysInput.value
    dateInputValue,  \* cleanupModal.dateInput.value: a day, or the empty text
    cleanupOption,   \* the control that set currentDays last
    cleanupDialog,   \* the confirm() dialog: "none" or "asking"
    cleanupSent,     \* the last POST /api/cleanup sent, or NotLoaded
    cleanupClock,    \* the time, in hours
    previewText      \* cleanupModal.previewText

cleanupVars ==
    <<cleanupShown, currentDays, daysInputValue, dateInputValue, cleanupOption,
      cleanupDialog, cleanupSent, cleanupClock, previewText>>

\* ---------------- dashboard (results.js): the category picker
VARIABLES
    selectedClient,             \* this.currentClient, where clients can be switched
    categorySelections,         \* this.categorySelections: client -> (key -> url)
    pendingCategorySelection,   \* this.pendingCategorySelection: null or key -> url
    categoryDrawerOpen,         \* this.categoryDrawerOpen
    drawerClient,               \* the client for which the drawer was opened last
    appliedSelection,           \* what the user applied last, for each client
    summaryRequests,            \* the clients of the summary requests not answered yet
    latestJob                   \* the job the summary reports, or NoJob

categoryVars == <<selectedClient, categorySelections, pendingCategorySelection, categoryDrawerOpen, drawerClient, appliedSelection, summaryRequests, latestJob>>

\* The pages of the dashboard other than the rendering of one change
pageVars == <<listVars, historyVars, jobVars, progressVars, themeVars, savedVars, compareVars, cleanupVars, categoryVars>>

vars == <<ledgerVars, renderVars, normVars, pageVars>>

-----------------------------------------------------------------------------
(* Bounds of the model *)

MaxRuns == 2
MaxRecords == 2
MaxDay == 1
MaxPage == 3
MaxInFlight == 2

\* The poll chains the stop button is allowed to add up to
MaxChains == 2

-----------------------------------------------------------------------------
(* Shared values *)

\* A value of the JSON the backend stores and serves: null, a number, a string
Null == [t |-> "null"]
Num(c, e) == [t |-> "num", c |-> c, e |-> e]
Str(s) == [t |-> "str", s |-> s]
Day(d) == [t |-> "day", d |-> d]

\* results.js:346 `Math.abs(numeric) < 1e-9`, in units of 1e-10
Epsilon == 10

Abs(n) == IF n < 0 THEN -n ELSE n

\* a - b on numbers
Minus(a, b) == Num(a.c - b.c, a.e - b.e)

\* Math.abs(x) < 1e-9
BelowEpsilon(x) == x.c = 0 /\ Abs(x.e) < Epsilon

\* x > 0; the noise never outweighs a cent
IsPositive(x) == IF x.c # 0 THEN x.c > 0 ELSE x.e > 0

-----------------------------------------------------------------------------
(* JavaScript values and strings (results.js, main.js)                      *)
(* A string is a sequence of one-character strings.                         *)

Undefined == [t |-> "undefined"]
NaN == [t |-> "nan"]
Text(cs) == [t |-> "str", cs |-> cs]

\* value == null
IsNullish(v) == v.t \in {"null", "undefined"}

\* Number.isFinite(x)
IsFinite(x) == x.t = "num"

UpperCaseLetters == <<"A", "B", "C", "D", "E", "F", "G", "H", "I", "J", "K", "L", "M", "N", "O", "P", "Q", "R", "S", "T", "U", "V", "W", "X", "Y", "Z">>
LowerCaseLetters == <<"a", "b", "c", "d", "e", "f", "g", "h", "i", "j", "k", "l", "m", "n", "o", "p", "q", "r", "s", "t", "u", "v", "w", "x", "y", "z">>
DigitChars == <<"0", "1", "2", "3", "4", "5", "6", "7", "8", "9">>

Range(f) == {f[i] : i \in DOMAIN f}

IsDigit(c) == c \in Range(DigitChars)
\* the character classes [a-z], [a-z0-9] and [0-9.-]
LowerLetterChars == Range(LowerCaseLetters)
LowerAlnumChars == Range(LowerCaseLetters) \cup Range(DigitChars)
PriceChars == Range(DigitChars) \cup {".", "-"}
\* \s of a regular expression, and what trim() strips
IsSpace(c) == c \in {" ", "\t", "\n"}

DigitValue(c) == (CHOOSE i \in 1..10 : DigitChars[i] = c) - 1

LowerChar(c) ==
    IF c \in Range(UpperCaseLetters)
    THEN LowerCaseLetters[CHOOSE i \in 1..26 : UpperCaseLetters[i] = c]
    ELSE c

\* String.prototype.toLowerCase
toLowerCase(s) == [i \in 1..Len(s) |-> LowerChar(s[i])]

SetMin(S) == CHOOSE x \in S : \A y \in S : x <= y
SetMax(S) == CHOOSE x \in S : \A y \in S : x >= y

\* String.prototype.trim
trim(s) ==
    IF \A i \in 1..Len(s) : IsSpace(s[i]) THEN <<>>
    ELSE SubSeq(s, SetMin({i \in 1..Len(s) : ~IsSpace(s[i])}),
                SetMax({i \in 1..Len(s) : ~IsSpace(s[i])}))

\* String.prototype.includes
includes(s, sub) ==
    \E i \in 1..(Len(s) - Len(sub) + 1) : SubSeq(s, i, i + Len(sub) - 1) = sub

\* s.replace(/[^...]+/g, r): every maximal run of characters outside the
\* class keep becomes the one character r
ReplaceRuns(s, keep, r) ==
    LET marked == [i \in 1..Len(s) |->
                      IF s[i] \in keep THEN s[i]
                      ELSE IF i = 1 \/ s[i - 1] \in keep THEN r
                      ELSE ""]
    IN  SelectSeq(marked, LAMBDA c : c # "")

\* s.replace(/[^...]/g, ''): the characters outside the class keep are dropped
KeepOnly(s, keep) == SelectSeq(s, LAMBDA c : c \in keep)

\* s.replace(/c/g, ''): every c is dropped
RemoveChar(s, c) == SelectSeq(s, LAMBDA x : x # c)

RECURSIVE DigitsValue(_)
\* The value of a sequence of decimal digits
DigitsValue(ds) ==
    IF ds = <<>> THEN 0
    ELSE 10 * DigitsValue(SubSeq(ds, 1, Len(ds) - 1)) + DigitValue(ds[Len(ds)])

\* Fraction digits as cents (the first two) and units of 1e-10 (the next eight)
PadRight(ds, n) == [i \in 1..n |-> IF i <= Len(ds) THEN ds[i] ELSE "0"]
FractionCents(ds) == DigitsValue(PadRight(ds, 2))
FractionUnits(ds) == DigitsValue(SubSeq(PadRight(ds, 10), 3, 10))

\* Digits before and digits after the decimal point, as a number with a sign
DecimalOfParts(whole, frac, sign) ==
    IF /\ \A i \in 1..Len(whole) : IsDigit(whole[i])
       /\ \A i \in 1..Len(frac) : IsDigit(frac[i])
       /\ Len(whole) + Len(frac) > 0
    THEN Num(sign * (100 * DigitsValue(whole) + FractionCents(frac)),
             sign * FractionUnits(frac))
    ELSE NaN

\* The number of a body whose decimal points stand at the positions dots
DecimalWithDots(body, sign, dots) ==
    IF dots = {} THEN DecimalOfParts(body, <<>>, sign)
    ELSE IF Cardinality(dots) > 1 THEN NaN
    ELSE DecimalOfParts(SubSeq(body, 1, SetMin(dots) - 1),
                        SubSeq(body, SetMin(dots) + 1, Len(body)), sign)

\* The StringNumericLiteral grammar of Number(string), for strings without
\* letters: optional sign, digits with an optional fraction, or a leading dot
\* (exponents, hex and Infinity need letters; a string holding a letter is NaN)
DecimalToNumber(body, sign) ==
    DecimalWithDots(body, sign, {i \in 1..Len(body) : body[i] = "."})

\* Number(string) of a trimmed string
SignedDecimal(t) ==
    IF t = <<>> THEN Num(0, 0)
    ELSE IF t[1] = "-" THEN DecimalToNumber(Tail(t), -1)
    ELSE IF t[1] = "+" THEN DecimalToNumber(Tail(t), 1)
    ELSE DecimalToNumber(t, 1)

\* Number(string)
StringToNumber(s) == SignedDecimal(trim(s))

\* Number(value)
ToNumber(v) ==
    CASE v.t = "undefined" -> NaN
      [] v.t = "null" -> Num(0, 0)
      [] v.t = "num" -> v
      [] v.t = "nan" -> NaN
      [] v.t = "str" -> StringToNumber(v.cs)

-----------------------------------------------------------------------------
(* Backend: the data model of spec.md section 3 *)

Clients == {"acme", "zen"}
Products == {"widget"}

\* spec 3, Product Identity: a stable key per (client, product)
Identities == [client : Clients, product : Products]

RunIds == 1..MaxRuns

\* spec 3: normalized price (decimal|null): 19.99, 19.99 with floating point
\* noise below the tolerance, 17.99
Prices == {Null, Num(1999, 0), Num(1999, 5), Num(1799, 0)}
StockStates == {Str("in_stock"), Str("out_of_stock")}
Descriptions == {Null, Str("text")}

\* spec 4.1: the canonical tuple the Normalizer hands to the Change Detector
AllRecords == [price : Prices, stock : StockStates, description : Descriptions]

\* The records the scraper feeds in: a first sight, the same product with
\* floating point noise in the price, a price and stock change, a price that
\* disappears while a description appears
Records ==
    { [price |-> Num(1999, 0), stock |-> Str("in_stock"), description |-> Null],
      [price |-> Num(1999, 5), stock |-> Str("in_stock"), description |-> Null],
      [price |-> Num(1799, 0), stock |-> Str("out_of_stock"), description |-> Null],
      [price |-> Null, stock |-> Str("in_stock"), description |-> Str("text")] }

NoSnap == [none |-> TRUE]
NoRun == [none |-> TRUE]

\* spec 3, Run: status values
TerminalStatuses == {"done", "cancelled", "error"}

IsTerminal(status) == status \in TerminalStatuses

RunExists(r) == runs[r] # NoRun

IdleWork == [pc |-> "idle"]

-----------------------------------------------------------------------------
(* Backend: Change Detector (spec 4.2) *)

\* spec 4.2 step 3, Price: numeric compare with the epsilon tolerance; a
\* presence/absence flip is a change
PriceDiffers(old, new) ==
    IF old = Null \/ new = Null THEN old # new ELSE ~BelowEpsilon(Minus(new, old))

\* spec 4.2 step 3: `difference = new - old` on the normalized numeric price
PriceDifference(old, new) ==
    IF old = Null \/ new = Null THEN Null ELSE Minus(new, old)

\* spec 4.2 step 2: the one baseline record of a first-seen identity
BaselineChange(rec) ==
    LET type == IF rec.price # Null THEN "new"
                ELSE IF rec.description # Null THEN "description"
                ELSE "stock"
        value == IF type = "new" THEN rec.price
                 ELSE IF type = "description" THEN rec.description
                 ELSE rec.stock
    IN  [change_type |-> type, old_value |-> Null, new_value |-> value,
         difference |-> Null, is_baseline |-> TRUE]

PriceChange(seen, rec) ==
    [change_type |-> "price", old_value |-> seen.price, new_value |-> rec.price,
     difference |-> PriceDifference(seen.price, rec.price), is_baseline |-> FALSE]

StockChange(seen, rec) ==
    [change_type |-> "stock", old_value |-> seen.stock, new_value |-> rec.stock,
     difference |-> Null, is_baseline |-> FALSE]

DescriptionChange(seen, rec) ==
    [change_type |-> "description", old_value |-> seen.description,
     new_value |-> rec.description, difference |-> Null, is_baseline |-> FALSE]

\* A detector with an else-if chain: only the first changed dimension is
\* reported
DetectChangesFirstOnly(seen, rec) ==
    IF seen = NoSnap THEN <<BaselineChange(rec)>>
    ELSE IF PriceDiffers(seen.price, rec.price) THEN <<PriceChange(seen, rec)>>
    ELSE IF seen.stock # rec.stock THEN <<StockChange(seen, rec)>>
    ELSE IF seen.description # rec.description THEN <<DescriptionChange(seen, rec)>>
    ELSE <<>>

\* spec 4.2 steps 1-3: zero or more changes for one record, one per changed
\* dimension, or the single baseline when no Snapshot existed
DetectChanges(seen, rec) ==
    IF seen = NoSnap THEN <<BaselineChange(rec)>>
    ELSE (IF PriceDiffers(seen.price, rec.price)
            THEN <<PriceChange(seen, rec)>> ELSE <<>>)
         \o (IF seen.stock # rec.stock
            THEN <<StockChange(seen, rec)>> ELSE <<>>)
         \o (IF seen.description # rec.description
            THEN <<DescriptionChange(seen, rec)>> ELSE <<>>)

\* spec 3, Change Record: the detector's output stamped with id, run and identity
StampBatch(batch, r, id, firstId) ==
    [i \in 1..Len(batch) |->
        [id |-> firstId + i - 1, run_id |-> r, client |-> id.client,
         identity |-> id, change_type |-> batch[i].change_type,
         old_value |-> batch[i].old_value, new_value |-> batch[i].new_value,
         difference |-> batch[i].difference,
         is_baseline |-> batch[i].is_baseline]]

-----------------------------------------------------------------------------
(* Backend: Run Ledger (spec 4.3) and retention cleanup (spec 6) *)

\* The call counter saturates: 2 stands for "a second or later call"
CountCall(n) == IF n < 2 THEN n + 1 ELSE n

\* A finalize_run that rewrites the row on every call
FinalizeRunOverwrite(row, status, stats, time) ==
    IF row = NoRun THEN row
    ELSE [row EXCEPT !.status = status, !.completed_at = Day(time),
                     !.categories_done = stats]

\* spec 4.3: finalize_run(run_id, status, stats); a run already in a terminal
\* status is left as it is (RunNotFound leaves the table as it is, too)
FinalizeRunRow(row, status, stats, time) ==
    IF row = NoRun THEN row
    ELSE IF IsTerminal(row.status) THEN row
    ELSE [row EXCEPT !.status = status, !.completed_at = Day(time),
                     !.categories_done = stats]

\* A cleanup that deletes the run rows and forgets their Change Records
ChangesAfterDeleteKeepAll(log, doomed) == log

\* spec 3/6: cleanup removes the runs' owned Change Records with the run rows
ChangesAfterDelete(log, doomed) ==
    SelectSeq(log, LAMBDA ch : ch.run_id \notin doomed)

\* spec 6: runs an age threshold of `days` selects
RunsOlderThan(days) ==
    {r \in RunIds : RunExists(r) /\ now - runs[r].started_at >= days}

\* A detector that does not take the lock
LockAvailableAlways(id) == TRUE

\* spec 5: the per-identity lock guarding Snapshot read-modify-write
LockAvailable(id) == lock[id] = 0

NoBatch == [none |-> TRUE]

NoChange == [none |-> TRUE]
NoView == [none |-> TRUE]

NoText == [none |-> TRUE]
NoResult == [none |-> TRUE]

\* The dashboard shows nothing yet
RenderIdle == change = NoChange /\ view = NoView

\* Nothing has been scraped yet
NormIdle == scraped = NoText /\ normalised = NoResult

NotLoaded == [none |-> TRUE]

\* The list of recent changes has not been opened
ListIdle ==
    /\ currentPage = NotLoaded
    /\ itemsPerPage = NotLoaded
    /\ filters = NotLoaded
    /\ requests = NotLoaded
    /\ latestChanges = NotLoaded
    /\ totalRecords = NotLoaded
    /\ pagination = NotLoaded

\* The history page has not been opened
HistoryIdle ==
    /\ historyData = NotLoaded
    /\ filteredHistory = NotLoaded
    /\ filterState = NotLoaded
    /\ historyContainer = NotLoaded
    /\ historyLoads = NotLoaded

\* The dashboard tracks no job
JobIdle ==
    /\ serverJob = NotLoaded
    /\ currentJobId = NotLoaded
    /\ storedJobId = NotLoaded
    /\ jobRequests = NotLoaded
    /\ pollTimer = NotLoaded
    /\ pollsInFlight = NotLoaded
    /\ jobView = NotLoaded
    /\ lastObserved = NotLoaded

\* The summary has not been drawn
ProgressIdle ==
    /\ categoryStats = NotLoaded
    /\ battery = NotLoaded

\* No page has applied a theme
ThemeIdle ==
    /\ themePage = NotLoaded
    /\ themeAttr = NotLoaded
    /\ toggleChecked = NotLoaded
    /\ storedTheme = NotLoaded
    /\ storageState = NotLoaded
    /\ systemTheme = NotLoaded
    /\ chosenTheme = NotLoaded
    /\ themeStep = NotLoaded

\* The extractor page is not open
SavedIdle ==
    /\ extractorClock = NotLoaded
    /\ savedResults = NotLoaded
    /\ rawItems = NotLoaded
    /\ currentModels = NotLoaded
    /\ extractorStep = NotLoaded

\* No comparison file is loaded
CompareIdle ==
    /\ compareMap = NotLoaded
    /\ cmpItem = NotLoaded
    /\ cmpPrice = NotLoaded
    /\ cmpUpload = NotLoaded

\* The cleanup dialog of the history page is not there
CleanupIdle ==
    /\ cleanupShown = NotLoaded
    /\ currentDays = NotLoaded
    /\ daysInputValue = NotLoaded
    /\ dateInputValue = NotLoaded
    /\ cleanupOption = NotLoaded
    /\ cleanupDialog = NotLoaded
    /\ cleanupSent = NotLoaded
    /\ cleanupClock = NotLoaded
    /\ previewText = NotLoaded

\* The category picker of the dashboard is not there
CategoryIdle ==
    /\ selectedClient = NotLoaded
    /\ categorySelections = NotLoaded
    /\ pendingCategorySelection = NotLoaded
    /\ categoryDrawerOpen = NotLoaded
    /\ drawerClient = NotLoaded
    /\ appliedSelection = NotLoaded
    /\ summaryRequests = NotLoaded
    /\ latestJob = NotLoaded

\* No page of the dashboard other than the rendering of one change is open
PagesIdle == ListIdle /\ HistoryIdle /\ JobIdle /\ ProgressIdle /\ ThemeIdle /\ SavedIdle /\ CompareIdle /\ CleanupIdle /\ CategoryIdle

\* The steps of the backend leave the browser pages alone
LedgerFrame == UNCHANGED <<renderVars, normVars, pageVars>>

\* The empty database
LedgerEmpty ==
    /\ snapshots = [id \in Identities |-> NoSnap]
    /\ changes = <<>>
    /\ runs = [r \in RunIds |-> NoRun]
    /\ nextRunId = 1
    /\ nextChangeId = 1
    /\ lock = [id \in Identities |-> 0]
    /\ work = [r \in RunIds |-> IdleWork]
    /\ finalizeCalls = [r \in RunIds |-> 0]
    /\ now = 0
    /\ processed = 0
    /\ lastBatch = NoBatch

LedgerInit ==
    /\ LedgerEmpty
    /\ RenderIdle
    /\ NormIdle
    /\ PagesIdle

\* spec 4.3: begin_run(client, config) -> run_id; the run row is created at
\* job start, when the worker pool picks the job up
begin_run(client) ==
    /\ nextRunId <= MaxRuns
    /\ runs' = [runs EXCEPT ![nextRunId] =
                   [client |-> client, status |-> "running",
                    cancel_requested |-> FALSE, items_count |-> 0,
                    categories_done |-> 0, started_at |-> now,
                    completed_at |-> Null, last_error |-> Null]]
    /\ nextRunId' = nextRunId + 1
    /\ UNCHANGED <<snapshots, changes, nextChangeId, lock, work, finalizeCalls,
                   now, processed, lastBatch>>
    /\ LedgerFrame

\* spec 4.2 step 1, under the lock of spec 5; the cancel flag is checked
\* between records (spec 4.3, cooperative cancellation)
LoadSnapshot(r, id, rec) ==
    /\ RunExists(r)
    /\ runs[r].status = "running"
    /\ runs[r].client = id.client
    /\ ~runs[r].cancel_requested
    /\ work[r].pc = "idle"
    /\ processed < MaxRecords
    /\ LockAvailable(id)
    /\ lock' = [lock EXCEPT ![id] = r]
    /\ work' = [work EXCEPT ![r] =
                   [pc |-> "loaded", identity |-> id, rec |-> rec,
                    seen |-> snapshots[id]]]
    /\ processed' = processed + 1
    /\ UNCHANGED <<snapshots, changes, runs, nextRunId, nextChangeId,
                   finalizeCalls, now, lastBatch>>
    /\ LedgerFrame

ReleaseLock(r, id) == [lock EXCEPT ![id] = IF lock[id] = r THEN 0 ELSE lock[id]]

\* spec 4.2 steps 2-4 and spec 4.3 record_changes: the changes are appended
\* in one batch, items_count follows, the Snapshot is overwritten
DetectAndStore(r) ==
    /\ work[r].pc = "loaded"
    /\ RunExists(r)
    /\ LET id == work[r].identity
           rec == work[r].rec
           batch == StampBatch(DetectChanges(work[r].seen, rec), r, id, nextChangeId)
       IN  /\ changes' = changes \o batch
           /\ nextChangeId' = nextChangeId + Len(batch)
           /\ snapshots' = [snapshots EXCEPT ![id] = rec]
           /\ runs' = [runs EXCEPT ![r].items_count = @ + Len(batch)]
           /\ lock' = ReleaseLock(r, id)
           /\ lastBatch' = [run_id |-> r, identity |-> id, seen |-> work[r].seen,
                            rec |-> rec, emitted |-> batch]
    /\ work' = [work EXCEPT ![r] = IdleWork]
    /\ UNCHANGED <<nextRunId, finalizeCalls, now, processed>>
    /\ LedgerFrame

\* spec 7: record_changes on a run that cleanup removed is RunNotFound; the
\* pass is abandoned and nothing is written
RunNotFound(r) ==
    /\ work[r].pc = "loaded"
    /\ ~RunExists(r)
    /\ lock' = ReleaseLock(r, work[r].identity)
    /\ work' = [work EXCEPT ![r] = IdleWork]
    /\ UNCHANGED <<snapshots, changes, runs, nextRunId, nextChangeId,
                   finalizeCalls, now, processed, lastBatch>>
    /\ LedgerFrame

\* spec 4.3: a run can be marked cancel_requested while status = running
RequestCancel(r) ==
    /\ RunExists(r)
    /\ runs[r].status = "running"
    /\ ~runs[r].cancel_requested
    /\ runs' = [runs EXCEPT ![r].cancel_requested = TRUE]
    /\ UNCHANGED <<snapshots, changes, nextRunId, nextChangeId, lock, work,
                   finalizeCalls, now, processed, lastBatch>>
    /\ LedgerFrame

\* spec 4.3: the job coordinator's completion signal; between records the
\* detector has seen the flag or not, and the run ends cancelled or done
CompleteRun(r) ==
    /\ RunExists(r)
    /\ runs[r].status = "running"
    /\ work[r].pc = "idle"
    /\ runs' = [runs EXCEPT ![r] =
                   FinalizeRunRow(@, IF @.cancel_requested THEN "cancelled"
                                     ELSE "done", r, now)]
    /\ finalizeCalls' = [finalizeCalls EXCEPT ![r] = CountCall(@)]
    /\ UNCHANGED <<snapshots, changes, nextRunId, nextChangeId, lock, work,
                   now, processed, lastBatch>>
    /\ LedgerFrame

\* spec 7, StoreUnavailable: the pass over the record fails, the coordinator
\* aborts the run with last_error; recorded changes remain
FailRun(r) ==
    /\ RunExists(r)
    /\ runs[r].status = "running"
    /\ work[r].pc = "loaded"
    /\ runs' = [runs EXCEPT ![r] =
                   [FinalizeRunRow(@, "error", @.categories_done, now)
                        EXCEPT !.last_error = Str("StoreUnavailable")]]
    /\ finalizeCalls' = [finalizeCalls EXCEPT ![r] = CountCall(@)]
    /\ lock' = ReleaseLock(r, work[r].identity)
    /\ work' = [work EXCEPT ![r] = IdleWork]
    /\ UNCHANGED <<snapshots, changes, nextRunId, nextChangeId, now, processed,
                   lastBatch>>
    /\ LedgerFrame

\* spec 4.3: a duplicate completion signal from the job coordinator
DuplicateFinalize(r, status) ==
    /\ RunExists(r)
    /\ finalizeCalls[r] >= 1
    /\ runs' = [runs EXCEPT ![r] = FinalizeRunRow(@, status, 0, now)]
    /\ finalizeCalls' = [finalizeCalls EXCEPT ![r] = CountCall(@)]
    /\ UNCHANGED <<snapshots, changes, nextRunId, nextChangeId, lock, work,
                   now, processed, lastBatch>>
    /\ LedgerFrame

\* spec 6: retention cleanup by an age threshold in days
CleanupByAge(days) ==
    /\ RunsOlderThan(days) # {}
    /\ runs' = [r \in RunIds |-> IF r \in RunsOlderThan(days) THEN NoRun ELSE runs[r]]
    /\ changes' = ChangesAfterDelete(changes, RunsOlderThan(days))
    /\ UNCHANGED <<snapshots, nextRunId, nextChangeId, lock, work,
                   finalizeCalls, now, processed, lastBatch>>
    /\ LedgerFrame

\* spec 6: retention cleanup by explicit run id
DeleteRun(r) ==
    /\ RunExists(r)
    /\ runs' = [runs EXCEPT ![r] = NoRun]
    /\ changes' = ChangesAfterDelete(changes, {r})
    /\ UNCHANGED <<snapshots, nextRunId, nextChangeId, lock, work,
                   finalizeCalls, now, processed, lastBatch>>
    /\ LedgerFrame

Tick ==
    /\ now < MaxDay
    /\ now' = now + 1
    /\ UNCHANGED <<snapshots, changes, runs, nextRunId, nextChangeId, lock,
                   work, finalizeCalls, processed, lastBatch>>
    /\ LedgerFrame

LedgerNext ==
    \/ \E c \in Clients : begin_run(c)
    \/ \E r \in RunIds, id \in Identities, rec \in Records : LoadSnapshot(r, id, rec)
    \/ \E r \in RunIds : DetectAndStore(r)
    \/ \E r \in RunIds : RunNotFound(r)
    \/ \E r \in RunIds : RequestCancel(r)
    \/ \E r \in RunIds : CompleteRun(r)
    \/ \E r \in RunIds : FailRun(r)
    \/ \E r \in RunIds, st \in TerminalStatuses : DuplicateFinalize(r, st)
    \/ \E days \in 1..MaxDay : CleanupByAge(days)
    \/ \E r \in RunIds : DeleteRun(r)
    \/ Tick

SpecLedger == LedgerInit /\ [][LedgerNext]_vars

-----------------------------------------------------------------------------
(* Dashboard: how a job's status is presented (results.js) *)

\* results.js capitalizeWords: the first letter of every word in upper case,
\* tabulated over the status words a job can carry
capitalizeWords(text) ==
    CASE text = "queued" -> "Queued"
      [] text = "running" -> "Running"
      [] text = "done" -> "Done"
      [] text = "cancelled" -> "Cancelled"
      [] text = "cancelling" -> "Cancelling"
      [] text = "error" -> "Error"
      [] text = "failed" -> "Failed"
      [] text = "idle" -> "Idle"
      [] text = "Unknown" -> "Unknown"
      [] OTHER -> text

\* A status switch in which a cancelled job shares the branch of a finished one
formatJobStatusCancelledAsDone(job) ==
    IF job.cancel_requested /\ job.status = "running" THEN "Cancelling"
    ELSE CASE job.status = "queued" -> "Queued"
           [] job.status = "running" -> "Running"
           [] job.status \in {"done", "cancelled"} -> "Completed"
           [] job.status \in {"error", "failed"} -> "Failed"
           [] OTHER -> capitalizeWords(IF job.status = "" THEN "Unknown"
                                       ELSE job.status)

\* results.js formatJobStatus(job), for a job object that is present
formatJobStatus(job) ==
    IF job.cancel_requested /\ job.status = "running" THEN "Cancelling"
    ELSE CASE job.status = "queued" -> "Queued"
           [] job.status = "running" -> "Running"
           [] job.status = "done" -> "Completed"
           [] job.status = "cancelled" -> "Cancelled"
           [] job.status \in {"error", "failed"} -> "Failed"
           [] OTHER -> capitalizeWords(IF job.status = "" THEN "Unknown"
                                       ELSE job.status)

\* The status label the dashboard shows for run r,  as /api/scrape/status
\* reports the run row
JobLabel(r) ==
    formatJobStatus([status |-> runs[r].status,
                     cancel_requested |-> runs[r].cancel_requested])

-----------------------------------------------------------------------------
(* Claims about the change-detection and run-tracking core *)

ChangeIndexes == 1..Len(changes)

BaselinesOf(id) ==
    {i \in ChangeIndexes : changes[i].identity = id /\ changes[i].is_baseline}

\* C1: for any identity (client, product), across all runs and including two
\* runs of the same client that process the identity concurrently, at most
\* one Change Record has is_baseline = true.
C1_AtMostOneBaseline ==
    \A id \in Identities : Cardinality(BaselinesOf(id)) <= 1

\* C1 witness: two runs of one client, both still running, have both recorded
\* changes for the same identity, whose baseline is on record.
C1_Witness ==
    \E i, j \in ChangeIndexes :
        /\ changes[i].identity = changes[j].identity
        /\ changes[i].run_id # changes[j].run_id
        /\ changes[i].is_baseline
        /\ RunExists(changes[i].run_id) /\ runs[changes[i].run_id].status = "running"
        /\ RunExists(changes[j].run_id) /\ runs[changes[j].run_id].status = "running"

Dimensions == {"price", "stock", "description"}

\* Whether the normalized value of a dimension differs between the Snapshot
\* and the incoming record (numeric prices within the tolerance are equal)
ValueDiffers(dim, seen, rec) ==
    CASE dim = "price" ->
            IF seen.price.t = "num" /\ rec.price.t = "num"
            THEN \/ rec.price.c # seen.price.c
                 \/ Abs(rec.price.e - seen.price.e) >= Epsilon
            ELSE seen.price # rec.price
      [] dim = "stock" -> seen.stock # rec.stock
      [] dim = "description" -> seen.description # rec.description

EmittedOf(dim) ==
    {i \in 1..Len(lastBatch.emitted) : lastBatch.emitted[i].change_type = dim}

\* C2: for an identity that already has a Snapshot, processing a record emits
\* exactly one non-baseline Change Record per dimension (price, stock,
\* description) whose normalized value differs from the Snapshot, and none for
\* a dimension that does not differ: two records when price and stock both
\* changed, none when the data is unchanged.
C2_OneChangePerChangedDimension ==
    (lastBatch # NoBatch /\ lastBatch.seen # NoSnap) =>
        /\ \A i \in 1..Len(lastBatch.emitted) :
              /\ ~lastBatch.emitted[i].is_baseline
              /\ lastBatch.emitted[i].change_type \in Dimensions
              /\ lastBatch.emitted[i].run_id = lastBatch.run_id
        /\ \A dim \in Dimensions :
              Cardinality(EmittedOf(dim)) =
                  IF ValueDiffers(dim, lastBatch.seen, lastBatch.rec) THEN 1 ELSE 0
        /\ (/\ ValueDiffers("price", lastBatch.seen, lastBatch.rec)
            /\ ValueDiffers("stock", lastBatch.seen, lastBatch.rec)
            /\ ~ValueDiffers("description", lastBatch.seen, lastBatch.rec))
              => Len(lastBatch.emitted) = 2
        /\ lastBatch.seen = lastBatch.rec => Len(lastBatch.emitted) = 0

\* C2 witness: a record whose price and stock both differ from the existing
\* Snapshot has been processed and two records were emitted.
C2_Witness ==
    /\ lastBatch # NoBatch
    /\ lastBatch.seen # NoSnap
    /\ ValueDiffers("price", lastBatch.seen, lastBatch.rec)
    /\ ValueDiffers("stock", lastBatch.seen, lastBatch.rec)
    /\ Len(lastBatch.emitted) = 2

\* C3: after a cleanup (by age or by id) deletes a run, no Change Record
\* carrying the deleted run_id remains: no reachable state holds Change
\* Records of a run that no longer exists.
C3_NoOrphanChanges ==
    \A i \in ChangeIndexes : RunExists(changes[i].run_id)

\* C3 witness: the run that recorded the last batch of changes has been
\* deleted, while another run's Change Records are still there.
C3_Witness ==
    /\ lastBatch # NoBatch
    /\ Len(lastBatch.emitted) > 0
    /\ ~RunExists(lastBatch.run_id)
    /\ changes # <<>>

\* C4: finalize_run is idempotent: a call on a run that already has a
\* terminal status leaves the run row (status, counters, timestamps) exactly
\* as it was.
C4_FinalizeIdempotent ==
    [][\A r \in RunIds :
          (/\ RunExists(r)
           /\ IsTerminal(runs[r].status)
           /\ RunExists(r)'
           /\ (finalizeCalls'[r] # finalizeCalls[r] \/ finalizeCalls[r] = 2))
             => runs'[r] = runs[r]]_vars

\* C4 witness: finalize_run was called a second time, on a later day than the
\* first call, and the run is terminal.
C4_Witness ==
    \E r \in RunIds :
        /\ RunExists(r)
        /\ finalizeCalls[r] = 2
        /\ IsTerminal(runs[r].status)
        /\ runs[r].completed_at # Day(now)

ChangesOfRun(r) ==
    {changes[i].id : i \in {j \in ChangeIndexes : changes[j].run_id = r}}

\* C5: once cancellation is requested for a running run, the run never
\* becomes done and is never shown as completed; it starts no further record;
\* a cancelled run records nothing more; and the step that ends it as
\* cancelled keeps every Change Record recorded so far.
C5_CancelStopsAndKeeps ==
    /\ [](\A r \in RunIds :
            (RunExists(r) /\ runs[r].cancel_requested) =>
                /\ runs[r].status \in {"running", "cancelled", "error"}
                /\ JobLabel(r) \in {"Cancelling", "Cancelled", "Failed"})
    /\ [][\A r \in RunIds :
            (RunExists(r) /\ runs[r].cancel_requested /\ work[r].pc = "idle")
                => work'[r].pc = "idle"]_vars
    /\ [][\A r \in RunIds :
            (RunExists(r) /\ runs[r].status = "cancelled" /\ RunExists(r)')
                => /\ runs'[r].status = "cancelled"
                   /\ ChangesOfRun(r)' = ChangesOfRun(r)]_vars
    /\ [][\A r \in RunIds :
            (/\ RunExists(r) /\ runs[r].status = "running"
             /\ RunExists(r)' /\ runs'[r].status = "cancelled")
                => changes' = changes]_vars

\* C5 witness: a run that recorded changes was cancelled while running and
\* has ended cancelled, its changes still on record.
C5_Witness ==
    \E r \in RunIds :
        /\ RunExists(r)
        /\ runs[r].cancel_requested
        /\ runs[r].status = "cancelled"
        /\ ChangesOfRun(r) # {}

-----------------------------------------------------------------------------
(* Dashboard: how one change is presented (results.js)                      *)
(* A change object carries change_type and change_label as strings ("" for  *)
(* an absent or empty one), is_baseline as a boolean, and difference,       *)
(* old_value, new_value, old_value_raw, new_value_raw as JavaScript values. *)

\* (change.change_type || '').toString().toLowerCase(), tabulated over the
\* spellings of the four change types
LowerType(t) ==
    CASE t \in {"price", "PRICE", "Price"} -> "price"
      [] t \in {"stock", "STOCK", "Stock"} -> "stock"
      [] t \in {"description", "DESCRIPTION", "Description"} -> "description"
      [] t \in {"new", "NEW", "New"} -> "new"
      [] OTHER -> t

\* change[`${side}_value_raw`] and change[`${side}_value`]
RawField(chg, side) ==
    IF side = "old" THEN chg.old_value_raw ELSE chg.new_value_raw
StructuredField(chg, side) ==
    IF side = "old" THEN chg.old_value ELSE chg.new_value

\* a ?? b ?? ''
Coalesce(a, b) ==
    IF ~IsNullish(a) THEN a ELSE IF ~IsNullish(b) THEN b ELSE Text(<<>>)

RECURSIVE NatToDigits(_)
NatToDigits(n) ==
    IF n < 10 THEN <<DigitChars[n + 1]>>
    ELSE Append(NatToDigits(n \div 10), DigitChars[(n % 10) + 1])

\* The digits of n, left-padded with zeros to the given width
PadLeft(n, width) ==
    LET ds == NatToDigits(n)
    IN  [i \in 1..(width - Len(ds)) |-> "0"] \o ds

\* Number.prototype.toString, for zero and for numbers of at least 1e-6 in
\* magnitude (below that JavaScript writes an exponent) whose cents and noise
\* have one sign
NumberToString(x) ==
    LET cents == Abs(x.c)
        fraction == PadLeft(cents % 100, 2) \o PadLeft(Abs(x.e), 8)
        significant == {i \in 1..10 : fraction[i] # "0"}
        sign == IF x.c < 0 \/ (x.c = 0 /\ x.e < 0) THEN <<"-">> ELSE <<>>
    IN  sign \o NatToDigits(cents \div 100) \o
        (IF significant = {} THEN <<>>
         ELSE <<".">> \o SubSeq(fraction, 1, SetMax(significant)))

\* value.toString()
ToStringJS(v) ==
    CASE v.t = "str" -> v.cs
      [] v.t = "num" -> NumberToString(v)
      [] v.t = "nan" -> <<"N", "a", "N">>

\* results.js hasMeaningfulValueText(value), on a string; the em dash
\* placeholder is outside the alphabet of the model
placeholders == {<<"-">>, <<"n", "/", "a">>, <<"n", "a">>, <<"n", "o", "n", "e">>, <<"n", "u", "l", "l">>, <<"t", "b", "d">>, <<"p", "e", "n", "d", "i", "n", "g">>}
hasMeaningfulValueText(value) ==
    LET trimmed == trim(value)
    IN  trimmed # <<>> /\ toLowerCase(trimmed) \notin placeholders

\* results.js resolveChangeValue: stringCandidates mapped and filtered
normalizedStrings(chg, side) ==
    LET rawField == RawField(chg, side)
        structuredField == StructuredField(chg, side)
        stringCandidates ==
            (IF ~IsNullish(rawField) THEN <<rawField>> ELSE <<>>) \o
            (IF ~IsNullish(structuredField) /\ structuredField # rawField
             THEN <<structuredField>> ELSE <<>>)
        mapped == [i \in 1..Len(stringCandidates) |->
                      trim(ToStringJS(stringCandidates[i]))]
    IN  SelectSeq(mapped, hasMeaningfulValueText)

\* Number(sanitized), or NaN for an empty sanitized (`continue`)
SanitizedNumber(sanitized) ==
    IF sanitized = <<>> THEN NaN ELSE StringToNumber(sanitized)

\* candidate.replace(/[^0-9.-]/g, '') then Number(sanitized)
CandidateNumber(candidate) == SanitizedNumber(KeepOnly(candidate, PriceChars))

\* The numbers of the candidates, in the order of the loop
CandidateNumbers(candidates) ==
    [i \in 1..Len(candidates) |-> CandidateNumber(candidates[i])]

\* The first finite one of the numbers, or null
FirstFinite(numbers) ==
    IF \A i \in 1..Len(numbers) : ~IsFinite(numbers[i]) THEN Null
    ELSE numbers[SetMin({i \in 1..Len(numbers) : IsFinite(numbers[i])})]

\* parsed if Number.isFinite(parsed), else null
FiniteOrNull(parsed) == IF IsFinite(parsed) THEN parsed ELSE Null

\* resolveChangeValue: numeric as set from structuredField alone
DirectNumber(structuredField) ==
    IF IsNullish(structuredField) THEN Null
    ELSE IF trim(ToStringJS(structuredField)) = <<>> THEN Null
    ELSE FiniteOrNull(ToNumber(structuredField))

\* resolveChangeValue: numeric from structuredField, else, for a price, from
\* the first candidate string that parses
NumericOf(direct, type, candidates) ==
    IF direct # Null THEN direct
    ELSE IF type = "price" THEN FirstFinite(CandidateNumbers(candidates))
    ELSE Null

\* results.js resolveChangeValue(change, side).numeric: a number or null
ResolveNumeric(chg, side) ==
    NumericOf(DirectNumber(StructuredField(chg, side)),
              LowerType(chg.change_type), normalizedStrings(chg, side))

\* results.js resolveChangeValue(change, side).isMissing: whether text is ''
\* (formatCurrency never yields the empty string)
ResolveIsMissing(chg, side) ==
    IF LowerType(chg.change_type) = "price" /\ ResolveNumeric(chg, side) # Null
    THEN FALSE
    ELSE normalizedStrings(chg, side) = <<>>

\* results.js formatCurrency on a non-negative number: the amount in cents,
\* rounded to two decimals
formatCurrency(x) == IF x.e >= 50000000 THEN x.c + 1 ELSE x.c

\* Math.abs(x)
AbsNumber(x) == IF IsPositive(x) THEN x ELSE Num(-x.c, -x.e)

\* numeric if it is finite, else new - old if both are finite, else NaN
DifferenceOrFallback(numeric, newNumeric, oldNumeric) ==
    IF IsFinite(numeric) THEN numeric
    ELSE IF IsFinite(newNumeric) /\ IsFinite(oldNumeric)
         THEN Minus(newNumeric, oldNumeric)
    ELSE NaN

\* The number formatDelta works on: Number(change.difference), or new - old
\* of the resolved values when that is not finite
DeltaNumeric(chg) ==
    DifferenceOrFallback(ToNumber(chg.difference), ResolveNumeric(chg, "new"),
                         ResolveNumeric(chg, "old"))

DeltaInfo(numeric) ==
    [t |-> "delta",
     direction |-> IF IsPositive(numeric) THEN "up" ELSE "down",
     sign |-> IF IsPositive(numeric) THEN "+" ELSE "-",
     amount |-> formatCurrency(AbsNumber(numeric)),
     title |-> IF IsPositive(numeric) THEN "Price increased by"
               ELSE "Price decreased by"]

\* formatDelta once numeric is known: null if it is not finite or below
\* 1e-9 in magnitude
DeltaOf(numeric) ==
    IF ~IsFinite(numeric) \/ BelowEpsilon(numeric) THEN Null
    ELSE DeltaInfo(numeric)

\* A formatDelta that only drops a difference of exactly zero
formatDeltaExactZero(chg) ==
    IF LowerType(chg.change_type) # "price" THEN Null
    ELSE LET numeric == DeltaNumeric(chg)
         IN  IF ~IsFinite(numeric) \/ (numeric.c = 0 /\ numeric.e = 0) THEN Null
             ELSE DeltaInfo(numeric)

\* A formatDelta that does not look at the change type
formatDeltaAnyType(chg) == DeltaOf(DeltaNumeric(chg))

\* results.js formatDelta(change): null, or the delta badge of a price change
formatDelta(chg) ==
    IF LowerType(chg.change_type) # "price" THEN Null
    ELSE DeltaOf(DeltaNumeric(chg))

inStockMarkers == {<<"i", "n", " ", "s", "t", "o", "c", "k">>, <<"i", "n", "s", "t", "o", "c", "k">>, <<"a", "v", "a", "i", "l", "a", "b", "l", "e">>, <<"r", "e", "a", "d", "y">>,
                   <<"a", "v", "a", "i", "l", "a", "b", "l", "e", " ", "n", "o", "w">>}
outStockMarkers == {<<"o", "u", "t", " ", "o", "f", " ", "s", "t", "o", "c", "k">>, <<"s", "o", "l", "d", " ", "o", "u", "t">>, <<"o", "o", "s">>, <<"u", "n", "a", "v", "a", "i", "l", "a", "b", "l", "e">>,
                    <<"n", "o", " ", "s", "t", "o", "c", "k">>}
backorderMarkers == {<<"b", "a", "c", "k", "o", "r", "d", "e", "r">>, <<"b", "a", "c", "k", " ", "o", "r", "d", "e", "r">>, <<"p", "r", "e", "o", "r", "d", "e", "r">>,
                     <<"p", "r", "e", " ", "o", "r", "d", "e", "r">>, <<"b", "a", "c", "k", "-", "o", "r", "d", "e", "r", "e", "d">>}

\* markers.some((marker) => text.includes(marker))
ContainsAny(text, markers) == \E marker \in markers : includes(text, marker)

\* normalizeStockState from compact on
CompactState(compact) ==
    IF ContainsAny(compact, inStockMarkers) THEN <<"i", "n", "_", "s", "t", "o", "c", "k">>
    ELSE IF ContainsAny(compact, outStockMarkers) THEN <<"o", "u", "t", "_", "o", "f", "_", "s", "t", "o", "c", "k">>
    ELSE IF ContainsAny(compact, backorderMarkers) THEN <<"b", "a", "c", "k", "o", "r", "d", "e", "r">>
    ELSE compact

\* normalizeStockState from cleaned on
CleanedState(cleaned) ==
    IF cleaned = <<>> THEN <<>>
    ELSE CompactState(ReplaceRuns(cleaned, LowerAlnumChars, " "))

\* results.js normalizeStockState(value): 'in_stock', 'out_of_stock',
\* 'backorder', or the compacted text
normalizeStockState(value) ==
    IF IsNullish(value) THEN <<>>
    ELSE CleanedState(toLowerCase(trim(ToStringJS(value))))

\* getChangeLabel: the label of a price change
PriceLabel(deltaInfo) ==
    IF deltaInfo = Null THEN "Price changed"
    ELSE IF deltaInfo.direction = "up" THEN "Price increased"
    ELSE IF deltaInfo.direction = "down" THEN "Price decreased"
    ELSE "Price changed"

\* getChangeLabel: the label of a stock change
StockLabel(oldState, newState) ==
    IF newState = <<"i", "n", "_", "s", "t", "o", "c", "k">> /\ oldState # <<"i", "n", "_", "s", "t", "o", "c", "k">>
    THEN "Back in stock"
    ELSE IF newState = <<"o", "u", "t", "_", "o", "f", "_", "s", "t", "o", "c", "k">> /\ oldState # <<"o", "u", "t", "_", "o", "f", "_", "s", "t", "o", "c", "k">>
    THEN "Out of stock"
    ELSE IF newState = <<"b", "a", "c", "k", "o", "r", "d", "e", "r">> /\ oldState # <<"b", "a", "c", "k", "o", "r", "d", "e", "r">>
    THEN "Backorder status updated"
    ELSE "Stock status changed"

\* getChangeLabel for a change without change_label
TypeLabel(chg, type) ==
    IF type \in {"new", "product_new", "new_product"} THEN "New product added"
    ELSE IF type = "price" THEN PriceLabel(formatDelta(chg))
    ELSE IF type = "stock"
         THEN StockLabel(
                normalizeStockState(Coalesce(chg.old_value_raw, chg.old_value)),
                normalizeStockState(Coalesce(chg.new_value_raw, chg.new_value)))
    ELSE IF type = "description" THEN "Description updated"
    ELSE "Value updated"

\* results.js getChangeLabel(change)
getChangeLabel(chg) ==
    IF chg.change_label # "" THEN chg.change_label
    ELSE TypeLabel(chg, LowerType(chg.change_type))

\* results.js getBaselineLabel(change)
getBaselineLabel(chg) ==
    LET type == LowerType(chg.change_type)
    IN  CASE type = "price" -> "New Price"
          [] type = "stock" -> "New Stock"
          [] type = "description" -> "New Description"
          [] type = "new" -> "New Product"
          [] OTHER -> "New Data"

Badge(text, direction, baseline) ==
    [t |-> "badge", text |-> text, direction |-> direction,
     baseline |-> baseline]

\* results.js buildDifferenceBadge(change): null, or the badge's text and
\* direction ("" where the code sets no direction)
buildDifferenceBadge(chg) ==
    LET type == LowerType(chg.change_type)
        numeric == ToNumber(chg.difference)
        oldNumeric == ResolveNumeric(chg, "old")
        newNumeric == ResolveNumeric(chg, "new")
        difference ==
            IF IsFinite(numeric) THEN numeric
            ELSE IF newNumeric # Null /\ oldNumeric # Null
                 THEN Minus(newNumeric, oldNumeric)
            ELSE Null
        rawOld == ToStringJS(Coalesce(chg.old_value_raw, chg.old_value))
        rawNew == ToStringJS(Coalesce(chg.new_value_raw, chg.new_value))
        oldLower == toLowerCase(rawOld)
        newLower == toLowerCase(rawNew)
    IN  IF chg.change_type = "" THEN Null
        ELSE IF chg.is_baseline THEN Badge(getBaselineLabel(chg), "", TRUE)
        ELSE IF type = "price"
             THEN IF ~IsFinite(difference)
                     \/ (difference.c = 0 /\ difference.e = 0)
                  THEN Null
                  ELSE Badge(<<IF IsPositive(difference) THEN "+" ELSE "-",
                               formatCurrency(AbsNumber(difference))>>,
                             IF IsPositive(difference) THEN "up" ELSE "down",
                             FALSE)
        ELSE IF type = "stock"
             THEN IF rawOld = <<>> /\ rawNew = <<>> THEN Null
                  ELSE IF ContainsAny(newLower, {<<"i", "n", " ", "s", "t", "o", "c", "k">>, <<"i", "n", "s", "t", "o", "c", "k">>,
                                                 <<"a", "v", "a", "i", "l", "a", "b", "l", "e">>, <<"r", "e", "a", "d", "y">>})
                  THEN Badge("Restocked", "up", FALSE)
                  ELSE IF ContainsAny(newLower, {<<"o", "u", "t", " ", "o", "f", " ", "s", "t", "o", "c", "k">>, <<"s", "o", "l", "d", " ", "o", "u", "t">>,
                                                 <<"u", "n", "a", "v", "a", "i", "l", "a", "b", "l", "e">>, <<"o", "o", "s">>})
                  THEN Badge("Out of Stock", "down", FALSE)
                  ELSE IF ContainsAny(newLower, {<<"b", "a", "c", "k", "o", "r", "d", "e", "r">>, <<"p", "r", "e", "-", "o", "r", "d", "e", "r">>,
                                                 <<"p", "r", "e", "o", "r", "d", "e", "r">>})
                  THEN Badge("Backorder", "flat", FALSE)
                  ELSE IF newLower = <<>> /\ oldLower # <<>>
                  THEN Badge("Stock Removed", "down", FALSE)
                  ELSE IF newLower # <<>> /\ oldLower = <<>>
                  THEN Badge("Stock Added", "up", FALSE)
                  ELSE Badge("Stock Updated", "flat", FALSE)
        ELSE IF type = "description"
             THEN Badge("Description Updated", "", FALSE)
        ELSE Null

\* results.js describeDifference(change): a text or null
describeDifference(chg) ==
    IF chg.is_baseline THEN "First snapshot"
    ELSE IF buildDifferenceBadge(chg) = Null THEN Null
    ELSE buildDifferenceBadge(chg).text

\* oldRaw ? oldRaw.toString().trim().length : 0, as "is it positive"
RawLengthUntrimmed(v) ==
    CASE v.t = "num" -> ~(v.c = 0 /\ v.e = 0)
      [] v.t = "nan" -> FALSE
      [] OTHER -> ToStringJS(v) # <<>>

RawLength(v) ==
    CASE v.t = "num" -> ~(v.c = 0 /\ v.e = 0)
      [] v.t = "nan" -> FALSE
      [] OTHER -> trim(ToStringJS(v)) # <<>>

\* describeChange: the summary of a baseline
BaselineSummary(type) ==
    CASE type = "price" -> "First price captured"
      [] type = "stock" -> "Initial stock snapshot recorded"
      [] type = "description" -> "Initial description captured"
      [] OTHER -> "Initial data captured"

\* describeChange: Number(change.difference), or new - old when that is not
\* finite and both sides resolve to a number
SummaryDifference(numeric, newNumeric, oldNumeric) ==
    IF ~IsFinite(numeric) /\ newNumeric # Null /\ oldNumeric # Null
    THEN Minus(newNumeric, oldNumeric)
    ELSE numeric

\* describeChange: the summary of a price change
PriceSummary(difference, oldText, newText) ==
    IF IsFinite(difference) /\ ~(difference.c = 0 /\ difference.e = 0)
    THEN IF IsPositive(difference) THEN "Price increased" ELSE "Price decreased"
    ELSE IF ~oldText /\ newText THEN "Price added"
    ELSE IF oldText /\ ~newText THEN "Price removed"
    ELSE IF oldText /\ newText THEN "Price updated"
    ELSE "Price change recorded"

\* describeChange: the summary of a stock change
StockSummary(oldText, newText) ==
    IF oldText /\ newText THEN "Stock status changed"
    ELSE IF ~oldText /\ newText THEN "Stock status captured"
    ELSE IF oldText /\ ~newText THEN "Stock status cleared"
    ELSE "Stock update logged"

\* describeChange: the summary of a description change
DescriptionSummary(oldRawLength, newRawLength) ==
    IF oldRawLength /\ newRawLength THEN "Description edited"
    ELSE IF ~oldRawLength /\ newRawLength THEN "Description added"
    ELSE IF oldRawLength /\ ~newRawLength THEN "Description removed"
    ELSE "Description updated"

\* describeChange: the summary of a change of another type
ValueSummary(oldText, newText) ==
    IF ~oldText /\ newText THEN "Value added"
    ELSE IF oldText /\ ~newText THEN "Value cleared"
    ELSE IF oldText /\ newText THEN "Value changed"
    ELSE "Record updated"

\* describeChange for a change that is not a baseline
ChangeSummary(chg, type) ==
    IF type = "price"
    THEN PriceSummary(SummaryDifference(ToNumber(chg.difference),
                                        ResolveNumeric(chg, "new"),
                                        ResolveNumeric(chg, "old")),
                      ~ResolveIsMissing(chg, "old"),
                      ~ResolveIsMissing(chg, "new"))
    ELSE IF type = "stock"
    THEN StockSummary(~ResolveIsMissing(chg, "old"), ~ResolveIsMissing(chg, "new"))
    ELSE IF type = "description"
    THEN DescriptionSummary(
             RawLength(Coalesce(chg.old_value_raw, chg.old_value)),
             RawLength(Coalesce(chg.new_value_raw, chg.new_value)))
    ELSE ValueSummary(~ResolveIsMissing(chg, "old"), ~ResolveIsMissing(chg, "new"))

\* results.js describeChange(change)
describeChange(chg) ==
    IF chg.is_baseline THEN BaselineSummary(LowerType(chg.change_type))
    ELSE ChangeSummary(chg, LowerType(chg.change_type))

\* The change objects of /api/results/recent handed to the rendering
\* functions: every combination of the listed field values
ChangeLabels == {"", "Custom label"}
ChangesOf(types, differences, olds, news, oldRaws, newRaws) ==
    [change_type : types, change_label : ChangeLabels,
     difference : differences,
     old_value : olds, new_value : news,
     old_value_raw : oldRaws, new_value_raw : newRaws,
     is_baseline : BOOLEAN]

\* Differences of 0, 5e-10, 1e-9 and 2.00 either way, null, and none at all
Differences == {Undefined, Null, Num(0, 0), Num(0, 5), Num(0, -5),
                Num(0, Epsilon), Num(0, -Epsilon), Num(200, 0), Num(-200, 0)}
StockTexts == {Undefined, Null, Text(<<"I", "n", " ", "S", "t", "o", "c", "k">>), Text(<<"S", "o", "l", "d", " ", "O", "u", "t">>),
               Text(<<"U", "n", "a", "v", "a", "i", "l", "a", "b", "l", "e">>), Text(<<"B", "a", "c", "k", "-", "O", "r", "d", "e", "r">>)}

PriceInputs ==
    ChangesOf({"price", "PRICE"}, Differences,
              {Null, Num(1999, 0)}, {Null, Num(1799, 0)},
              {Undefined}, {Undefined, Text(<<"$", "1", "7", ".", "9", "9">>)})
StockInputs ==
    ChangesOf({"stock"}, {Null, Num(200, 0)},
              {Null, Text(<<"i", "n", "_", "s", "t", "o", "c", "k">>)}, {Null, Text(<<"i", "n", "_", "s", "t", "o", "c", "k">>)},
              StockTexts, StockTexts)
OtherInputs ==
    ChangesOf({"description", "new"}, {Null, Num(200, 0)},
              {Null, Text(<<"t", "e", "x", "t">>)}, {Null, Text(<<"t", "e", "x", "t">>)},
              {Undefined}, {Undefined})
\* Description changes whose values are missing, empty, blank or a text
DescriptionTexts == {Null, Text(<<>>), Text(<<" ", " ">>), Text(<<"t", "e", "x", "t">>)}
DescriptionInputs ==
    ChangesOf({"description"}, {Null},
              DescriptionTexts, DescriptionTexts,
              {Undefined, Text(<<" ">>), Text(<<"R", "a", "w", " ", "t", "e", "x", "t">>)},
              {Undefined, Text(<<" ">>), Text(<<"R", "a", "w", " ", "t", "e", "x", "t">>)})
ChangeInputs ==
    PriceInputs \cup StockInputs \cup OtherInputs \cup DescriptionInputs

\* The dashboard has received one change and has not rendered it yet
RenderInit ==
    /\ LedgerEmpty
    /\ NormIdle
    /\ PagesIdle
    /\ change \in ChangeInputs
    /\ view = NoView

\* results.js buildChangeCard(change): the card shows the label of the
\* change and, when formatDelta yields one, its delta badge
buildChangeCard ==
    /\ change # NoChange
    /\ view = NoView
    /\ view' = [label |-> getChangeLabel(change), delta |-> formatDelta(change)]
    /\ UNCHANGED <<change, ledgerVars, normVars, pageVars>>

\* results.js describeChange(change), which no rendering path of the page
\* calls, applied to the change of the card
RenderSummary ==
    /\ view # NoView
    /\ "summary" \notin DOMAIN view
    /\ view' = [label |-> view.label, delta |-> view.delta,
                summary |-> describeChange(change)]
    /\ UNCHANGED <<change, ledgerVars, normVars, pageVars>>

RenderNext == buildChangeCard \/ RenderSummary

SpecRender == RenderInit /\ [][RenderNext]_vars

Rendered == view # NoView

-----------------------------------------------------------------------------
(* Claims about the presentation of a change *)

\* d >= 1e-9 and d <= -1e-9, for a difference whose cents and noise agree in sign
AtLeastEpsilon(d) == d.c > 0 \/ (d.c = 0 /\ d.e >= Epsilon)
AtMostMinusEpsilon(d) == d.c < 0 \/ (d.c = 0 /\ d.e <= -Epsilon)

\* C6: for a price change without change_label whose difference is a number
\* d, the card reports direction up and 'Price increased' when d >= 1e-9,
\* direction down and 'Price decreased' when d <= -1e-9, and no direction
\* (no delta, 'Price changed') when |d| < 1e-9.
C6_DirectionFromSign ==
    (/\ Rendered
     /\ LowerType(change.change_type) = "price"
     /\ change.change_label = ""
     /\ change.difference.t = "num")
    => LET d == change.difference
       IN  /\ AtLeastEpsilon(d) =>
                /\ view.delta # Null
                /\ view.delta.direction = "up"
                /\ view.label = "Price increased"
           /\ AtMostMinusEpsilon(d) =>
                /\ view.delta # Null
                /\ view.delta.direction = "down"
                /\ view.label = "Price decreased"
           /\ (~AtLeastEpsilon(d) /\ ~AtMostMinusEpsilon(d)) =>
                /\ view.delta = Null
                /\ view.label = "Price changed"

\* A price drop of exactly 1e-9 rendered as a decrease, next to a rise of
\* 5e-10 that would render without direction
C6_Witness ==
    /\ Rendered
    /\ change.change_type = "price"
    /\ change.change_label = ""
    /\ change.difference = Num(0, -Epsilon)
    /\ view.label = "Price decreased"
    /\ view.delta # Null
    /\ view.delta.direction = "down"

FirstObservation(chg) ==
    /\ chg.is_baseline
    /\ chg.old_value = Null
    /\ chg.old_value_raw \in {Null, Undefined}
    /\ chg.difference = Null

\* C8 as stated: for a change with is_baseline = true the label, the delta
\* badge and the description never present a price increase, a price
\* decrease or a stock transition.
C8_BaselineNeverAsRealChange ==
    (Rendered /\ FirstObservation(change)) =>
        /\ view.label \notin {"Price increased", "Price decreased",
                              "Back in stock", "Out of stock",
                              "Backorder status updated"}
        /\ view.delta = Null
        /\ buildDifferenceBadge(change).baseline
        /\ describeChange(change) \in {"First price captured",
                                       "Initial stock snapshot recorded",
                                       "Initial description captured",
                                       "Initial data captured"}

\* The first sighting of a product that is in stock, labelled 'Back in stock'
C8_Witness ==
    /\ Rendered
    /\ FirstObservation(change)
    /\ change.change_type = "stock"
    /\ change.change_label = ""
    /\ change.new_value = Text(<<"i", "n", "_", "s", "t", "o", "c", "k">>)
    /\ change.new_value_raw = Text(<<"I", "n", " ", "S", "t", "o", "c", "k">>)
    /\ view.label = "Back in stock"
    /\ buildDifferenceBadge(change).text = "New Stock"
    /\ describeChange(change) = "Initial stock snapshot recorded"

-----------------------------------------------------------------------------
(* Scraper page: stock normalisation and price parsing (main.js) *)

\* The keys of STOCK_LABELS
STOCK_LABELS == {<<"i", "n", "_", "s", "t", "o", "c", "k">>, <<"l", "i", "m", "i", "t", "e", "d">>, <<"b", "a", "c", "k", "_", "o", "r", "d", "e", "r">>, <<"p", "r", "e", "o", "r", "d", "e", "r">>,
                 <<"p", "r", "e", "_", "o", "r", "d", "e", "r">>, <<"o", "u", "t", "_", "o", "f", "_", "s", "t", "o", "c", "k">>, <<"s", "o", "l", "d", "_", "o", "u", "t">>,
                 <<"d", "i", "s", "c", "o", "n", "t", "i", "n", "u", "e", "d">>, <<"u", "n", "a", "v", "a", "i", "l", "a", "b", "l", "e">>, <<"u", "n", "k", "n", "o", "w", "n">>}

\* a[-\s]?b: the two parts, joined directly, by a hyphen or by one white space
OptionalSeparator(a, b) ==
    {a \o b} \cup {a \o <<c>> \o b : c \in {"-", " ", "\t", "\n"}}

\* One entry of STOCK_KEYWORDS.  Its regular expression is an alternation,
\* given by the alternatives that match anywhere in the text, those anchored
\* at the end of the text ($), and those followed by \d+.
Keyword(anywhere, atEnd, beforeDigits, value) ==
    [anywhere |-> anywhere, atEnd |-> atEnd, beforeDigits |-> beforeDigits,
     value |-> value]

\* main.js STOCK_KEYWORDS, in the order of the array
STOCK_KEYWORDS ==
    << Keyword({<<"n", "o", "t", " ", "a", "v", "a", "i", "l", "a", "b", "l", "e">>, <<"n", "o", " ", "s", "t", "o", "c", "k">>, <<"s", "o", "l", "d", " ", "o", "u", "t">>, <<"u", "n", "a", "v", "a", "i", "l", "a", "b", "l", "e">>,
                <<"o", "u", "t", " ", "o", "f", " ", "s", "t", "o", "c", "k">>, <<"o", "u", "t", "-", "o", "f", "-", "s", "t", "o", "c", "k">>, <<"o", "u", "t", "o", "f", "s", "t", "o", "c", "k">>},
               {}, {}, <<"o", "u", "t", "_", "o", "f", "_", "s", "t", "o", "c", "k">>),
       Keyword(OptionalSeparator(<<"b", "a", "c", "k">>, <<"o", "r", "d", "e", "r">>)
                   \cup {<<"a", "w", "a", "i", "t", "i", "n", "g", " ", "s", "t", "o", "c", "k">>, <<"s", "h", "i", "p", "s", " ", "i", "n">>, <<"s", "p", "e", "c", "i", "a", "l", " ", "o", "r", "d", "e", "r">>,
                         <<"b", "a", "c", "k", "o", "r", "d", "e", "r", "e", "d">>, <<"b", "a", "c", "k", "o", "r", "d", "e", "r">>},
               {}, {}, <<"b", "a", "c", "k", "_", "o", "r", "d", "e", "r">>),
       Keyword(OptionalSeparator(<<"p", "r", "e">>, <<"o", "r", "d", "e", "r">>)
                   \cup {<<"c", "o", "m", "i", "n", "g", " ", "s", "o", "o", "n">>, <<"p", "r", "e", "o", "r", "d", "e", "r">>},
               {}, {}, <<"p", "r", "e", "o", "r", "d", "e", "r">>),
       Keyword({<<"l", "i", "m", "i", "t", "e", "d">>, <<"l", "o", "w", " ", "s", "t", "o", "c", "k">>, <<"f", "e", "w", " ", "l", "e", "f", "t">>, <<"a", "l", "m", "o", "s", "t", " ", "g", "o", "n", "e">>,
                <<"l", "i", "m", "i", "t", "e", "d", "a", "v", "a", "i", "l", "a", "b", "i", "l", "i", "t", "y">>},
               {}, {<<"o", "n", "l", "y", " ">>}, <<"l", "i", "m", "i", "t", "e", "d">>),
       Keyword({<<"d", "i", "s", "c", "o", "n", "t", "i", "n", "u", "e", "d">>, <<"n", "o", " ", "l", "o", "n", "g", "e", "r", " ", "a", "v", "a", "i", "l", "a", "b", "l", "e">>, <<"r", "e", "t", "i", "r", "e", "d">>},
               {}, {}, <<"d", "i", "s", "c", "o", "n", "t", "i", "n", "u", "e", "d">>),
       Keyword({<<"i", "n", " ", "s", "t", "o", "c", "k">>, <<"a", "v", "a", "i", "l", "a", "b", "l", "e", " ", "n", "o", "w">>, <<"r", "e", "a", "d", "y", " ", "t", "o", " ", "s", "h", "i", "p">>,
                <<"s", "h", "i", "p", "s", " ", "t", "o", "d", "a", "y">>, <<"i", "n", "s", "t", "o", "c", "k">>},
               {<<"y", "e", "s">>, <<"a", "v", "a", "i", "l", "a", "b", "l", "e">>}, {}, <<"i", "n", "_", "s", "t", "o", "c", "k">>) >>

\* String.prototype.endsWith
EndsWith(s, sub) ==
    Len(sub) <= Len(s) /\ SubSeq(s, Len(s) - Len(sub) + 1, Len(s)) = sub

\* The text holds sub with a digit right after it
IncludesBeforeDigit(s, sub) ==
    \E i \in 1..(Len(s) - Len(sub)) :
        SubSeq(s, i, i + Len(sub) - 1) = sub /\ IsDigit(s[i + Len(sub)])

\* regex.test(lowered) for the regular expression of one keyword entry
RegexTest(keyword, lowered) ==
    \/ \E alt \in keyword.anywhere : includes(lowered, alt)
    \/ \E alt \in keyword.atEnd : EndsWith(lowered, alt)
    \/ \E alt \in keyword.beforeDigits : IncludesBeforeDigit(lowered, alt)

\* lowered.replace(/[^a-z]+/g, '_')
Canonical(lowered) == ReplaceRuns(lowered, LowerLetterChars, "_")

\* A normaliser in which the last matching keyword entry wins
normaliseStockValueLastMatch(raw) ==
    IF IsNullish(raw) THEN <<"u", "n", "k", "n", "o", "w", "n">>
    ELSE LET str == trim(ToStringJS(raw))
             lowered == toLowerCase(str)
             canonical == Canonical(lowered)
             matching == {i \in 1..Len(STOCK_KEYWORDS) :
                             RegexTest(STOCK_KEYWORDS[i], lowered)}
         IN  IF str = <<>> THEN <<"u", "n", "k", "n", "o", "w", "n">>
             ELSE IF canonical \in STOCK_LABELS THEN canonical
             ELSE IF matching # {} THEN STOCK_KEYWORDS[SetMax(matching)].value
             ELSE IF canonical # <<>> THEN canonical
             ELSE <<"u", "n", "k", "n", "o", "w", "n">>

\* main.js normaliseStockValue(raw)
normaliseStockValue(raw) ==
    IF IsNullish(raw) THEN <<"u", "n", "k", "n", "o", "w", "n">>
    ELSE LET str == trim(ToStringJS(raw))
             lowered == toLowerCase(str)
             canonical == Canonical(lowered)
             matching == {i \in 1..Len(STOCK_KEYWORDS) :
                             RegexTest(STOCK_KEYWORDS[i], lowered)}
         IN  IF str = <<>> THEN <<"u", "n", "k", "n", "o", "w", "n">>
             ELSE IF canonical \in STOCK_LABELS THEN canonical
             ELSE IF matching # {} THEN STOCK_KEYWORDS[SetMin(matching)].value
             ELSE IF canonical # <<>> THEN canonical
             ELSE <<"u", "n", "k", "n", "o", "w", "n">>

\* [0-9]{k} at position i
DigitsAt(s, i, k) == i + k - 1 <= Len(s) /\ \A j \in i..(i + k - 1) : IsDigit(s[j])

\* ,[0-9]{3} at position i
IsGroupAt(s, i) == i + 3 <= Len(s) /\ s[i] = "," /\ DigitsAt(s, i + 1, 3)

\* \.[0-9]{2} at position i
IsCentsAt(s, i) == i + 2 <= Len(s) /\ s[i] = "." /\ DigitsAt(s, i + 1, 2)

\* The ways [0-9]{1,3}(?:,[0-9]{3})*(?:\.[0-9]{2}) matches at position i: k
\* leading digits and r groups, then the two decimals
GroupedMatches(s, i) ==
    {kr \in (1..3) \X (0..(Len(s) \div 4)) :
        /\ DigitsAt(s, i, kr[1])
        /\ \A j \in 0..(kr[2] - 1) : IsGroupAt(s, i + kr[1] + 4 * j)
        /\ IsCentsAt(s, i + kr[1] + 4 * kr[2])}

\* The match the greedy quantifiers find first: most leading digits, then
\* most groups; its last position
GroupedEnd(s, i) ==
    LET k == SetMax({kr[1] : kr \in GroupedMatches(s, i)})
        r == SetMax({kr[2] : kr \in {m \in GroupedMatches(s, i) : m[1] = k}})
    IN  i + k + 4 * r + 2

\* [0-9]+(?:\.[0-9]{2})? at position i, where a digit stands: the whole run
\* of digits and the two decimals if they follow; its last position
PlainEnd(s, i) ==
    LET n == SetMax({k \in 1..(Len(s) - i + 1) : DigitsAt(s, i, k)})
    IN  IF IsCentsAt(s, i + n) THEN i + n + 2 ELSE i + n - 1

\* String(maybe).match(/(grouped|plain)/)[1]: the leftmost match, the first
\* alternative tried first; <<>> when nothing matches
MoneyMatch(s) ==
    LET starts == {i \in 1..Len(s) : IsDigit(s[i])}
        i == SetMin(starts)
    IN  IF starts = {} THEN <<>>
        ELSE IF GroupedMatches(s, i) # {} THEN SubSeq(s, i, GroupedEnd(s, i))
        ELSE SubSeq(s, i, PlainEnd(s, i))

\* parseFloat on what the pattern captures once the commas are removed:
\* digits with an optional two-digit fraction, where it agrees with Number
parseFloat(s) == StringToNumber(s)

\* !maybe
IsFalsy(v) ==
    CASE v.t \in {"null", "undefined", "nan"} -> TRUE
      [] v.t = "str" -> v.cs = <<>>
      [] v.t = "num" -> v.c = 0 /\ v.e = 0

\* main.js parseMoney(maybe): a number or null
parseMoney(maybe) ==
    IF IsFalsy(maybe) THEN Null
    ELSE LET m == MoneyMatch(ToStringJS(maybe))
         IN  IF m = <<>> THEN Null
             ELSE parseFloat(RemoveChar(m, ","))

\* The texts the scraper page normalises: a phrase, with or without words
\* before and after it
Prefixes == {<<>>, <<" ">>, <<"C", "u", "r", "r", "e", "n", "t", "l", "y", " ">>, <<"n", "o", "t", " ">>}
StockPhrases == {<<>>, <<"I", "n", " ", "S", "t", "o", "c", "k">>, <<"i", "n", "_", "s", "t", "o", "c", "k">>, <<"S", "o", "l", "d", " ", "O", "u", "t">>,
                 <<"o", "u", "t", " ", "o", "f", " ", "s", "t", "o", "c", "k">>, <<"O", "u", "t", "-", "o", "f", "-", "S", "t", "o", "c", "k">>, <<"u", "n", "a", "v", "a", "i", "l", "a", "b", "l", "e">>,
                 <<"A", "v", "a", "i", "l", "a", "b", "l", "e">>, <<"B", "a", "c", "k", "-", "O", "r", "d", "e", "r">>, <<"b", "a", "c", "k", "o", "r", "d", "e", "r">>, <<"P", "r", "e", " ", "O", "r", "d", "e", "r">>,
                 <<"L", "i", "m", "i", "t", "e", "d">>, <<"O", "n", "l", "y", " ", "3">>, <<"D", "i", "s", "c", "o", "n", "t", "i", "n", "u", "e", "d">>, <<"S", "h", "i", "p", "s", " ", "t", "o", "d", "a", "y">>,
                 <<"y", "e", "s">>, <<"C", "a", "l", "l", " ", "u", "s">>, <<"u", "n", "k", "n", "o", "w", "n">>, <<"1", "2", "3">>}
MoneyPhrases == {<<"$", "1", ",", "2", "3", "4", ".", "5", "6">>, <<"$", "1", ",", "2", "3", "4">>, <<"$", "1", ",", "2", "3", "4", ".", "5">>, <<"1", "2", "3", "4", ".", "5", "6">>,
                 <<"1", "2", ",", "3", "4", "5", ",", "6", "7", "8", ".", "9", "0">>, <<"$", "0", ".", "0", "0">>, <<"1", "9", ".", "9", "9">>, <<"$", "5">>,
                 <<"C", "a", "l", "l", " ", "f", "o", "r", " ", "p", "r", "i", "c", "e">>}
Suffixes == {<<>>, <<" ">>, <<"!">>, <<" ", "5">>}
ScrapedTexts ==
    {Null} \cup
    {Text(pre \o phrase \o suf) :
        pre \in Prefixes, phrase \in StockPhrases \cup MoneyPhrases,
        suf \in Suffixes}

Pending == [pending |-> TRUE]

\* A text has been scraped and nothing computed from it yet
NormInit ==
    /\ LedgerEmpty
    /\ RenderIdle
    /\ PagesIdle
    /\ scraped \in ScrapedTexts
    /\ normalised = [stock |-> Pending, price |-> Pending]

\* main.js getStockMeta: the stock cell of the results table is normalised
NormaliseStock ==
    /\ scraped # NoText
    /\ normalised.stock = Pending
    /\ normalised' = [normalised EXCEPT
                         !.stock = Text(normaliseStockValue(scraped))]
    /\ UNCHANGED <<scraped, ledgerVars, renderVars, pageVars>>

\* main.js: the price cell of the results table is parsed
ParsePrice ==
    /\ scraped # NoText
    /\ normalised.price = Pending
    /\ normalised' = [normalised EXCEPT !.price = parseMoney(scraped)]
    /\ UNCHANGED <<scraped, ledgerVars, renderVars, pageVars>>

NormNext == NormaliseStock \/ ParsePrice

SpecNormalise == NormInit /\ [][NormNext]_vars

-----------------------------------------------------------------------------
(* Claims about stock normalisation and price parsing *)

StockDone == normalised # NoResult /\ normalised.stock # Pending
PriceDone == normalised # NoResult /\ normalised.price # Pending

\* The scraped text is a string with something other than white space in it
NonBlank == scraped # NoText /\ scraped.t = "str" /\ trim(scraped.cs) # <<>>

\* The keyword entries whose regular expression matches the scraped text
MatchingKeywords ==
    {i \in 1..Len(STOCK_KEYWORDS) :
        RegexTest(STOCK_KEYWORDS[i], toLowerCase(trim(scraped.cs)))}

\* The scraped text, trimmed, in lower case, each run of other characters
\* than a-z turned into an underscore
Slug == Canonical(toLowerCase(trim(scraped.cs)))

\* C9 as stated: a non-blank text gets the value of the first keyword
\* category that matches it, and a text no category matches gets its slug
\* (never the empty slug that would turn into 'unknown').
C9_FirstKeywordWins ==
    (StockDone /\ NonBlank) =>
        IF MatchingKeywords # {}
        THEN \E i \in MatchingKeywords :
                /\ \A j \in MatchingKeywords : i <= j
                /\ normalised.stock = Text(STOCK_KEYWORDS[i].value)
        ELSE /\ normalised.stock = Text(Slug)
             /\ Slug # <<>>

\* C9 amended: a non-blank text whose slug is one of the known stock values
\* (the keys of STOCK_LABELS, 'unknown' among them) gets that slug, whatever
\* keywords it holds; any other non-blank text gets the value of the first
\* keyword category that matches it; a text no category matches gets its
\* slug, which is never empty and never 'unknown'.  A blank or missing text
\* gets 'unknown'.
C9_LabelThenFirstKeyword ==
    StockDone =>
        IF ~NonBlank THEN normalised.stock = Text(<<"u", "n", "k", "n", "o", "w", "n">>)
        ELSE IF Slug \in STOCK_LABELS THEN normalised.stock = Text(Slug)
        ELSE IF MatchingKeywords # {}
             THEN \E i \in MatchingKeywords :
                     /\ \A j \in MatchingKeywords : i <= j
                     /\ normalised.stock = Text(STOCK_KEYWORDS[i].value)
        ELSE /\ normalised.stock = Text(Slug)
             /\ Slug # <<>>
             /\ normalised.stock # Text(<<"u", "n", "k", "n", "o", "w", "n">>)

\* 'Currently unavailable' matches the out-of-stock category (unavailable)
\* and the in-stock one (available$): the earlier one wins
C9_Witness ==
    /\ StockDone
    /\ scraped = Text(<<"C", "u", "r", "r", "e", "n", "t", "l", "y", " ", "u", "n", "a", "v", "a", "i", "l", "a", "b", "l", "e">>)
    /\ Cardinality(MatchingKeywords) = 2
    /\ normalised.stock = Text(<<"o", "u", "t", "_", "o", "f", "_", "s", "t", "o", "c", "k">>)

\* C10 as stated: '$1,234.56' yields 1234.56 and '$1,234' yields 1234; a text
\* without a number yields null, and zero is only the result of a text that
\* holds a number.
C10_StripsSymbolsAndSeparators ==
    PriceDone =>
        /\ scraped = Text(<<"$", "1", ",", "2", "3", "4", ".", "5", "6">>) => normalised.price = Num(123456, 0)
        /\ scraped = Text(<<"$", "1", ",", "2", "3", "4">>) => normalised.price = Num(123400, 0)
        /\ (scraped = Null \/ \A i \in 1..Len(scraped.cs) : ~IsDigit(scraped.cs[i]))
              => normalised.price = Null
        /\ normalised.price = Num(0, 0)
              => \E i \in 1..Len(scraped.cs) : IsDigit(scraped.cs[i])

\* '$1,234' parsed as 1
C10_Witness ==
    /\ PriceDone
    /\ scraped = Text(<<"$", "1", ",", "2", "3", "4">>)
    /\ normalised.price = Num(100, 0)

-----------------------------------------------------------------------------
(* Claims about stock labels and description summaries *)

\* The raw value of one side of a change, the structured one where no raw
\* value is kept: trimmed, in lower case, punctuation turned into spaces
DenotedText(chg, side) ==
    LET source == Coalesce(RawField(chg, side), StructuredField(chg, side))
    IN  ReplaceRuns(toLowerCase(trim(ToStringJS(source))), LowerAlnumChars, " ")

\* The value of one side holds one of the markers
Denotes(chg, side, markers) ==
    \E marker \in markers : includes(DenotedText(chg, side), marker)

\* C11 as stated: for a stock change without change_label, a new raw value
\* that denotes out of stock where the old one does not is labelled 'Out of
\* stock', one that denotes in stock where the old one does not 'Back in
\* stock', one that denotes backorder where the old one does not 'Backorder
\* status updated'.
C11_StockLabelFromRawValues ==
    (Rendered /\ LowerType(change.change_type) = "stock" /\ change.change_label = "")
    => /\ (Denotes(change, "new", outStockMarkers)
             /\ ~Denotes(change, "old", outStockMarkers))
          => view.label = "Out of stock"
       /\ (Denotes(change, "new", inStockMarkers)
             /\ ~Denotes(change, "old", inStockMarkers))
          => view.label = "Back in stock"
       /\ (Denotes(change, "new", backorderMarkers)
             /\ ~Denotes(change, "old", backorderMarkers))
          => view.label = "Backorder status updated"

\* A product going from back-order to 'Unavailable', labelled 'Back in stock'
C11_Witness ==
    /\ Rendered
    /\ change.change_type = "stock"
    /\ change.change_label = ""
    /\ ~change.is_baseline
    /\ change.old_value_raw = Text(<<"B", "a", "c", "k", "-", "O", "r", "d", "e", "r">>)
    /\ change.new_value_raw = Text(<<"U", "n", "a", "v", "a", "i", "l", "a", "b", "l", "e">>)
    /\ view.label = "Back in stock"

\* The summary of the change has been computed
Summarised == Rendered /\ "summary" \in DOMAIN view

\* The description a change carries on one side, the raw value where one is
\* kept and the structured value otherwise, holds a character that is not
\* white space
DescriptionPresent(chg, side) ==
    LET value == Coalesce(RawField(chg, side), StructuredField(chg, side))
    IN  value.t = "str" /\ \E i \in 1..Len(value.cs) : ~IsSpace(value.cs[i])

\* The three classifications of a description change, each exactly in its case
DescriptionClassified ==
    /\ view.summary = "Description added"
         <=> (~DescriptionPresent(change, "old") /\ DescriptionPresent(change, "new"))
    /\ view.summary = "Description removed"
         <=> (DescriptionPresent(change, "old") /\ ~DescriptionPresent(change, "new"))
    /\ view.summary = "Description edited"
         <=> (DescriptionPresent(change, "old") /\ DescriptionPresent(change, "new"))

\* C12 as stated: with an empty or blank description treated as absent, every
\* description change is summarised as added exactly when only the new
\* description is present, removed exactly when only the old one is, and
\* edited exactly when both are.
C12_DescriptionClassification ==
    (Summarised /\ LowerType(change.change_type) = "description")
    => DescriptionClassified

\* C12 amended: the classification holds for every description change that
\* is not a baseline; a baseline is summarised as an initial capture.
C12_NonBaselineDescriptionClassification ==
    (Summarised /\ LowerType(change.change_type) = "description"
       /\ ~change.is_baseline)
    => DescriptionClassified

\* A description whose old raw value is blank and whose new value is a text
\* has been summarised as added
C12_Witness ==
    /\ Summarised
    /\ change.change_type = "description"
    /\ ~change.is_baseline
    /\ change.old_value_raw = Text(<<" ">>)
    /\ change.old_value = Text(<<"t", "e", "x", "t">>)
    /\ change.new_value_raw = Undefined
    /\ change.new_value = Text(<<"t", "e", "x", "t">>)
    /\ view.summary = "Description added"

-----------------------------------------------------------------------------
(* The list of recent changes: the Query Engine (spec 4.4, spec 7) *)

\* spec 3: the Change Records of the client, newest first
StoredChanges ==
    << [id |-> 5, change_type |-> "price", changed_at |-> 1,
        title |-> Text(<<"D", "o", "c", "k">>), sku |-> Text(<<"M", "5">>)],
       [id |-> 4, change_type |-> "stock", changed_at |-> 1,
        title |-> Text(<<"a", "d", "a", "p", "t", "e", "r">>), sku |-> Text(<<"M", "4">>)],
       [id |-> 3, change_type |-> "price", changed_at |-> 1,
        title |-> Text(<<"C", "a", "b", "l", "e">>), sku |-> Text(<<"M", "3">>)],
       [id |-> 2, change_type |-> "price", changed_at |-> 0,
        title |-> Text(<<"B", "a", "t", "t", "e", "r", "y">>), sku |-> Text(<<"M", "2">>)],
       [id |-> 1, change_type |-> "description", changed_at |-> 0,
        title |-> Null, sku |-> Text(<<"A", "1">>)] >>

\* spec 4.4: search_query matches case-insensitively against title and SKU
MatchesSearch(row, q) ==
    \/ row.title # Null /\ includes(toLowerCase(row.title.cs), toLowerCase(q.cs))
    \/ row.sku # Null /\ includes(toLowerCase(row.sku.cs), toLowerCase(q.cs))

\* spec 4.4: filtering is conjunctive (AND across change_types/date/search);
\* a parameter the request does not carry restricts nothing
MatchesRequest(row, req) ==
    /\ req.change_types = {} \/ row.change_type \in req.change_types
    /\ req.from = Null \/ row.changed_at >= req.from.d
    /\ req.to = Null \/ row.changed_at <= req.to.d
    /\ req.q = Null \/ MatchesSearch(row, req.q)

\* spec 4.4: the filtered result set, in the natural insertion/time order
FilteredChanges(req) ==
    LET Matches(row) == MatchesRequest(row, req)
    IN  SelectSeq(StoredChanges, Matches)

\* spec 4.4: pagination is offset-based
PageOf(rows, limit, offset) ==
    SubSeq(rows, offset + 1, SetMin({offset + limit, Len(rows)}))

\* spec 4.4: recent_changes(...) -> (items, total); total reflects the
\* filtered count
recent_changes(req) ==
    [items |-> PageOf(FilteredChanges(req), req.limit, req.offset),
     total |-> Len(FilteredChanges(req))]

-----------------------------------------------------------------------------
(* The list of recent changes: the dashboard (results.js) *)

currentClient == "mobilesentrix"

\* results.js constructor: this.filters
DefaultFilters ==
    [changeTypes |-> {"new", "price", "stock", "description"},
     fromDate |-> Null, toDate |-> Null,
     searchQuery |-> Text(<<>>), sortMode |-> "recent"]

\* The page sizes of the page size selector and of the stored preference
PageSizes == {2, 3}

SortModes == {"recent", "title"}

\* What the filter form can hold when Apply is pressed: the checked change
\* types, the date range and the trimmed search text
FilterForms ==
    { [changeTypes |-> {"new", "price", "stock", "description"},
       fromDate |-> Null, toDate |-> Null, searchQuery |-> Text(<<>>)],
      [changeTypes |-> {"price", "description"},
       fromDate |-> Day(1), toDate |-> Day(1), searchQuery |-> Text(<<"a">>)],
      [changeTypes |-> {"stock"},
       fromDate |-> Null, toDate |-> Day(0), searchQuery |-> Text(<<>>)] }

\* results.js loadRecentChanges: the URLSearchParams of the request
RequestParams(page, perPage, f) ==
    [client |-> currentClient,
     limit |-> perPage,
     offset |-> (page - 1) * perPage,
     change_types |-> f.changeTypes,
     from |-> f.fromDate,
     to |-> f.toDate,
     q |-> IF f.searchQuery.cs # <<>> THEN f.searchQuery ELSE Null]

\* String.prototype.localeCompare with sensitivity 'base', on lower-cased
\* titles made of letters
LetterRank(c) == CHOOSE i \in 1..26 : LowerCaseLetters[i] = c

RECURSIVE localeCompare(_, _)
localeCompare(a, b) ==
    IF a = <<>> /\ b = <<>> THEN 0
    ELSE IF a = <<>> THEN -1
    ELSE IF b = <<>> THEN 1
    ELSE IF LetterRank(Head(a)) < LetterRank(Head(b)) THEN -1
    ELSE IF LetterRank(Head(a)) > LetterRank(Head(b)) THEN 1
    ELSE localeCompare(Tail(a), Tail(b))

\* sortChanges: (a.title || '').toString().toLowerCase()
TitleKey(row) == IF row.title = Null THEN <<>> ELSE toLowerCase(row.title.cs)

\* sortChanges: the comparison function handed to Array.prototype.sort
CompareTitles(titleA, titleB) ==
    IF titleA # <<>> /\ titleB # <<>> THEN localeCompare(titleA, titleB)
    ELSE IF titleA # <<>> THEN -1
    ELSE IF titleB # <<>> THEN 1
    ELSE 0

\* Array.prototype.sort is stable: an item goes behind the items that do not
\* sort after it
InsertByTitle(sorted, row) ==
    LET before == Cardinality({i \in 1..Len(sorted) :
                     CompareTitles(TitleKey(sorted[i]), TitleKey(row)) <= 0})
    IN  SubSeq(sorted, 1, before) \o <<row>>
            \o SubSeq(sorted, before + 1, Len(sorted))

RECURSIVE SortByTitle(_)
SortByTitle(items) ==
    IF items = <<>> THEN <<>>
    ELSE InsertByTitle(SortByTitle(SubSeq(items, 1, Len(items) - 1)),
                       items[Len(items)])


\* results.js sortChanges(items)
sortChanges(items, sortMode) ==
    IF items = <<>> THEN <<>>
    ELSE IF sortMode = "title" THEN SortByTitle(items)
    ELSE items

\* Math.ceil(a / b) for a >= 0 and b > 0
CeilDiv(a, b) == (a + b - 1) \div b

\* updatePagination: totalPages
TotalPages(total, perPage) == SetMax({1, CeilDiv(total, perPage)})

\* A variant that counts the pages without rounding up
updatePaginationRoundedDown(total, shown, page, perPage) ==
    [pageInfo |-> [page |-> page, of |-> SetMax({1, total \div perPage})],
     prevDisabled |-> page <= 1,
     nextDisabled |-> page >= SetMax({1, total \div perPage})]

\* results.js updatePagination({total, changes})
updatePagination(total, shown, page, perPage) ==
    IF total >= 0
    THEN [pageInfo |-> [page |-> page, of |-> TotalPages(total, perPage)],
          prevDisabled |-> page <= 1,
          nextDisabled |-> page >= TotalPages(total, perPage)]
    ELSE [pageInfo |-> [page |-> page, of |-> 0],
          prevDisabled |-> page <= 1,
          nextDisabled |-> ~(Len(shown) = perPage)]

\* The pagination controls before the first response: nothing is shown and
\* no button is disabled
InitialPagination ==
    [pageInfo |-> NotLoaded, prevDisabled |-> FALSE, nextDisabled |-> FALSE]

\* The steps of the list leave the other pages and the backend alone
ListFrame == UNCHANGED <<ledgerVars, renderVars, normVars, historyVars, jobVars, progressVars, themeVars, savedVars, compareVars, cleanupVars, categoryVars>>

\* results.js constructor and restorePreferences: the dashboard as loaded
ListInit ==
    /\ LedgerEmpty
    /\ RenderIdle
    /\ NormIdle
    /\ HistoryIdle
    /\ JobIdle
    /\ ProgressIdle
    /\ ThemeIdle
    /\ SavedIdle
    /\ CompareIdle
    /\ CleanupIdle
    /\ CategoryIdle
    /\ currentPage = 1
    /\ itemsPerPage \in PageSizes
    /\ filters = DefaultFilters
    /\ requests = {}
    /\ latestChanges = <<>>
    /\ totalRecords = 0
    /\ pagination = InitialPagination

\* results.js loadRecentChanges up to the fetch: the request for the page,
\* page size and filters the step leaves behind
SendRequest ==
    /\ Cardinality(requests) < MaxInFlight
    /\ requests' = requests \cup
                      {RequestParams(currentPage', itemsPerPage', filters')}

\* loadDashboard and the 30 s timer of startPolling: loadRecentChanges()
RefreshChanges ==
    /\ UNCHANGED <<currentPage, itemsPerPage, filters>>
    /\ SendRequest
    /\ UNCHANGED <<latestChanges, totalRecords, pagination>>
    /\ ListFrame

\* bindEvents: the page size selector
ChangePageSize ==
    /\ \E size \in PageSizes : itemsPerPage' = size
    /\ currentPage' = 1
    /\ UNCHANGED filters
    /\ SendRequest
    /\ UNCHANGED <<latestChanges, totalRecords, pagination>>
    /\ ListFrame

\* bindEvents: the sort selector
ChangeSort ==
    /\ \E mode \in SortModes : filters' = [filters EXCEPT !.sortMode = mode]
    /\ currentPage' = 1
    /\ UNCHANGED itemsPerPage
    /\ SendRequest
    /\ UNCHANGED <<latestChanges, totalRecords, pagination>>
    /\ ListFrame

\* bindEvents: the Previous button, which a disabled button does not fire
PreviousPage ==
    /\ ~pagination.prevDisabled
    /\ currentPage > 1
    /\ currentPage' = currentPage - 1
    /\ UNCHANGED <<itemsPerPage, filters>>
    /\ SendRequest
    /\ UNCHANGED <<latestChanges, totalRecords, pagination>>
    /\ ListFrame

\* bindEvents: the Next button, which a disabled button does not fire
NextPage ==
    /\ ~pagination.nextDisabled
    /\ currentPage < MaxPage
    /\ currentPage' = currentPage + 1
    /\ UNCHANGED <<itemsPerPage, filters>>
    /\ SendRequest
    /\ UNCHANGED <<latestChanges, totalRecords, pagination>>
    /\ ListFrame

\* results.js applyFilters()
applyFilters ==
    /\ \E form \in FilterForms, mode \in SortModes :
          filters' = [changeTypes |-> form.changeTypes,
                      fromDate |-> form.fromDate,
                      toDate |-> form.toDate,
                      searchQuery |-> form.searchQuery,
                      sortMode |-> mode]
    /\ currentPage' = 1
    /\ UNCHANGED itemsPerPage
    /\ SendRequest
    /\ UNCHANGED <<latestChanges, totalRecords, pagination>>
    /\ ListFrame

\* results.js loadRecentChanges from the response on: the items are sorted
\* and shown, and the pagination is brought up to date
ShowChanges(payload) ==
    /\ latestChanges' = sortChanges(payload.items, filters.sortMode)
    /\ totalRecords' = payload.total
    /\ pagination' = updatePagination(payload.total, payload.items,
                                      currentPage, itemsPerPage)

ReceiveChanges ==
    /\ \E req \in requests :
          /\ requests' = requests \ {req}
          /\ ShowChanges(recent_changes(req))
    /\ UNCHANGED <<currentPage, itemsPerPage, filters>>
    /\ ListFrame

\* results.js loadRecentChanges: the request fails or the response is not
\* OK; an error is shown and the list stays as it was
ReceiveChangesError ==
    /\ \E req \in requests : requests' = requests \ {req}
    /\ UNCHANGED <<currentPage, itemsPerPage, filters, latestChanges,
                   totalRecords, pagination>>
    /\ ListFrame

ListNext ==
    \/ RefreshChanges
    \/ ChangePageSize
    \/ ChangeSort
    \/ PreviousPage
    \/ NextPage
    \/ applyFilters
    \/ ReceiveChanges
    \/ ReceiveChangesError

SpecListing == ListInit /\ [][ListNext]_vars

-----------------------------------------------------------------------------
(* Claims about the list of recent changes *)

\* The number of stored changes that satisfy every filter a request carries
FilteredCount(req) ==
    Cardinality({i \in DOMAIN StoredChanges :
                    MatchesRequest(StoredChanges[i], req)})

\* max(1, ceil(total / perPage))
PageCount(total, perPage) ==
    IF total = 0 THEN 1
    ELSE CHOOSE n \in 1..total : (n - 1) * perPage < total /\ total <= n * perPage

\* A request carries the page, the page size and every filter that is set
CarriesPageAndFilters(req, page, perPage, f) ==
    /\ req.limit = perPage
    /\ req.offset = (page - 1) * perPage
    /\ req.change_types = f.changeTypes
    /\ req.from = f.fromDate
    /\ req.to = f.toDate
    /\ req.q = (IF f.searchQuery = Text(<<>>) THEN Null ELSE f.searchQuery)

\* The pagination shows the page count of a total, and its buttons
PaginationShows(shown, total, page, perPage) ==
    /\ shown.pageInfo = [page |-> page, of |-> PageCount(total, perPage)]
    /\ shown.nextDisabled <=> page >= PageCount(total, perPage)
    /\ shown.prevDisabled <=> page <= 1

\* C13: every request sent carries limit = itemsPerPage, offset =
\* (currentPage - 1) * itemsPerPage and all filters then set; and whenever a
\* response brings the pagination up to date, the total it returned is the
\* number of changes satisfying all filters of its request, the page count
\* shown is max(1, ceil(total / itemsPerPage)), Next is disabled exactly when
\* currentPage >= page count and Previous exactly when currentPage <= 1.
C13_PaginationFromFilteredTotal ==
    [][ /\ \A req \in requests' \ requests :
              CarriesPageAndFilters(req, currentPage', itemsPerPage', filters')
        /\ pagination' # pagination
              => \E req \in requests \ requests' :
                    /\ totalRecords' = FilteredCount(req)
                    /\ PaginationShows(pagination', FilteredCount(req),
                                       currentPage', itemsPerPage') ]_vars

\* A search within a date range and two change types has been answered: one
\* change of the five satisfies all three filters, and the list shows page 1
\* of 1 with both buttons disabled
C13_Witness ==
    /\ requests = {}
    /\ filters # NotLoaded
    /\ filters.searchQuery = Text(<<"a">>)
    /\ filters.fromDate = Day(1)
    /\ filters.changeTypes = {"price", "description"}
    /\ currentPage = 1
    /\ totalRecords = 1
    /\ Len(latestChanges) = 1
    /\ pagination.pageInfo = [page |-> 1, of |-> 1]
    /\ pagination.nextDisabled
    /\ pagination.prevDisabled

\* What the list shows for page k with the page size and filters now set
ListingPage(k) ==
    sortChanges(recent_changes(RequestParams(k, itemsPerPage, filters)).items,
                filters.sortMode)

\* The list shows the page now selected under the filters now set
ListInStep ==
    /\ requests = {}
    /\ pagination # InitialPagination
    /\ latestChanges = ListingPage(currentPage)

\* Every title of one page sorts at or before every title of another
SortsAtOrBefore(page, nextPage) ==
    \A i \in DOMAIN page, j \in DOMAIN nextPage :
        CompareTitles(TitleKey(page[i]), TitleKey(nextPage[j])) <= 0

\* C14 as stated: with sort mode title every title on the page shown sorts
\* at or before every title on the next page of the same filtered result
\* set; with sort mode recent the page shown is in the order the query
\* returned.
C14_TitleOrderOverWholeResult ==
    ListInStep
    => /\ filters.sortMode = "title"
             => SortsAtOrBefore(latestChanges, ListingPage(currentPage + 1))
       /\ filters.sortMode = "recent"
             => latestChanges =
                  recent_changes(RequestParams(currentPage, itemsPerPage,
                                               filters)).items

\* Sorted by title with two items a page, page 1 shows adapter and Dock
\* while Battery and Cable are on page 2
C14_Witness ==
    /\ ListInStep
    /\ filters.sortMode = "title"
    /\ itemsPerPage = 2
    /\ currentPage = 1
    /\ totalRecords = 5
    /\ Len(latestChanges) = 2
    /\ latestChanges[1].title = Text(<<"a", "d", "a", "p", "t", "e", "r">>)
    /\ latestChanges[2].title = Text(<<"D", "o", "c", "k">>)
    /\ ListingPage(2)[1].title = Text(<<"B", "a", "t", "t", "e", "r", "y">>)

-----------------------------------------------------------------------------
(* The history page (unnamed/part_000): loading and filtering sessions *)

\* Times are counted in hours; a day of the date inputs has DayHours of them
DayHours == 24
Time(h) == [t |-> "time", h |-> h]
InvalidTime == Text(<<"s", "o", "o", "n">>)

\* The position of the first occurrence of sub in s, or 0
IndexOf(s, sub) ==
    IF includes(s, sub)
    THEN SetMin({i \in 1..(Len(s) - Len(sub) + 1) :
                    SubSeq(s, i, i + Len(sub) - 1) = sub})
    ELSE 0

\* The text of a URL behind its scheme
AfterScheme(url) == SubSeq(url, IndexOf(url, <<":", "/", "/">>) + 3, Len(url))

\* The text in front of the first slash
BeforeSlash(s) ==
    IF IndexOf(s, <<"/">>) = 0 THEN s ELSE SubSeq(s, 1, IndexOf(s, <<"/">>) - 1)

\* new URL(url) throws for a text without a scheme or a host
IsURL(url) ==
    /\ IndexOf(url, <<":", "/", "/">>) > 1
    /\ BeforeSlash(AfterScheme(url)) # <<>>

\* hostname.replace(/^www\./, '')
StripWww(host) ==
    IF Len(host) >= 4 /\ SubSeq(host, 1, 4) = <<"w", "w", "w", ".">>
    THEN SubSeq(host, 5, Len(host))
    ELSE host

\* normalizeHistoryEntry: the host a URL adds to hostSet; a text that is no
\* URL is added as it is
HostOf(url) ==
    IF IsURL(url)
    THEN StripWww(toLowerCase(BeforeSlash(AfterScheme(url))))
    ELSE url

\* Array.from(hostSet): the hosts in the order of their first URL
RECURSIVE HostList(_)
HostList(urls) ==
    IF urls = <<>> THEN <<>>
    ELSE IF HostOf(urls[Len(urls)]) = <<>>
            \/ HostOf(urls[Len(urls)]) \in Range(HostList(SubSeq(urls, 1, Len(urls) - 1)))
         THEN HostList(SubSeq(urls, 1, Len(urls) - 1))
         ELSE Append(HostList(SubSeq(urls, 1, Len(urls) - 1)), HostOf(urls[Len(urls)]))

\* Array.prototype.join
RECURSIVE Join(_, _)
Join(parts, separator) ==
    IF parts = <<>> THEN <<>>
    ELSE IF Len(parts) = 1 THEN parts[1]
    ELSE parts[1] \o separator \o Join(Tail(parts), separator)

\* Number(value) || 0
NumberOrZero(v) ==
    IF IsFinite(ToNumber(v)) THEN ToNumber(v) ELSE Num(0, 0)

\* normalizeHistoryEntry: itemsCount
ItemsCount(entry) ==
    IF IsFinite(ToNumber(entry.items_count))
    THEN ToNumber(entry.items_count)
    ELSE Num(100 * Len(entry.items), 0)

\* normalizeHistoryEntry: what the items add to searchParts
RECURSIVE ItemParts(_)
ItemParts(items) ==
    IF items = <<>> THEN <<>>
    ELSE (IF ~IsFalsy(items[1].title) THEN <<items[1].title.cs>> ELSE <<>>)
         \o (IF ~IsFalsy(items[1].site) THEN <<items[1].site.cs>> ELSE <<>>)
         \o ItemParts(Tail(items))

\* normalizeHistoryEntry: searchParts, each as String(part)
SearchParts(entry) ==
    << entry.id,
       NumberToString(ItemsCount(entry)),
       Join(entry.urls, <<" ">>),
       Join(HostList(entry.urls), <<" ">>),
       NumberToString(NumberOrZero(entry.percent_off)),
       NumberToString(NumberOrZero(entry.absolute_off)) >>
    \o ItemParts(SubSeq(entry.items, 1, SetMin({25, Len(entry.items)})))

\* normalizeHistoryEntry: the timestamp parsed, or null
TimestampObj(entry) ==
    IF entry.timestamp.t = "time" THEN entry.timestamp ELSE Null

\* part_000 normalizeHistoryEntry(entry)
normalizeHistoryEntry(entry) ==
    [id |-> entry.id,
     urls |-> entry.urls,
     items |-> entry.items,
     items_count |-> ItemsCount(entry).c \div 100,
     host_list |-> HostList(entry.urls),
     timestamp_obj |-> TimestampObj(entry),
     timestamp_ms |-> IF TimestampObj(entry) = Null THEN 0
                      ELSE TimestampObj(entry).h,
     search_index |-> toLowerCase(Join(SearchParts(entry), <<" ", "|", " ">>))]

\* part_000 parseDateInput(value, endOfDay): the first or the last hour of
\* the day, or null for an empty input
parseDateInput(value, endOfDay) ==
    IF value = Null THEN Null
    ELSE IF endOfDay THEN Time(DayHours * value.d + DayHours - 1)
    ELSE Time(DayHours * value.d)

\* The sessions /api/history can serve
Session1 ==
    [id |-> <<"r", "u", "n", "-", "1">>, timestamp |-> Time(5),
     urls |-> << <<"h", "t", "t", "p", "s", ":", "/", "/", "w", "w", "w", ".", "A", "c", "m", "e", ".", "c", "o", "m", "/", "a">> >>,
     items |-> <<>>, items_count |-> Num(300, 0),
     percent_off |-> Num(1000, 0), absolute_off |-> Undefined]
Session2 ==
    [id |-> <<"r", "u", "n", "-", "2">>, timestamp |-> InvalidTime,
     urls |-> << <<"h", "t", "t", "p", "s", ":", "/", "/", "z", "e", "n", ".", "i", "o", "/", "b">>, <<"h", "t", "t", "p", "s", ":", "/", "/", "w", "w", "w", ".", "a", "c", "m", "e", ".", "c", "o", "m", "/", "c">> >>,
     items |-> <<>>, items_count |-> Num(0, 0),
     percent_off |-> Undefined, absolute_off |-> Undefined]
Session3 ==
    [id |-> <<"R", "U", "N", "-", "3">>, timestamp |-> Time(30),
     urls |-> << <<"z", "e", "n">> >>,
     items |-> << [title |-> Text(<<"D", "o", "c", "k">>), site |-> Null],
                  [title |-> Null, site |-> Text(<<"z", "e", "n", ".", "i", "o">>)] >>,
     items_count |-> Undefined,
     percent_off |-> Undefined, absolute_off |-> Undefined]

\* The responses of /api/history: any of the sessions, in their order
Histories ==
    { <<>>, <<Session1>>, <<Session2>>, <<Session3>>,
      <<Session1, Session2>>, <<Session1, Session3>>, <<Session2, Session3>>,
      <<Session1, Session2, Session3>> }

\* What can be typed into the search box, picked as a date, set on the
\* slider
SearchInputs == { <<>>, <<" ", "A", "C", "M", "E", " ">>, <<"R", "u", "n", "-", "3">>, <<"d", "o", "c", "k">> }
DateInputs == {Null, Day(0), Day(1)}
MinItemsInputs == {0, 2, 3}

\* part_000 defaultFilterState
defaultFilterState ==
    [search |-> <<>>, startDate |-> Null, endDate |-> Null,
     minItems |-> 0, site |-> <<>>]

\* The hosts of all loaded sessions: the options of the site selector
SiteOptions(data) == UNION {Range(data[i].host_list) : i \in DOMAIN data}

\* part_000 updateSiteFilterOptions(): a site that is no option any more is
\* cleared
SiteKept(f, data) == IF f.site \in SiteOptions(data) THEN f.site ELSE <<>>

\* part_000 updateMinItemsSlider(): the largest value of the slider
SliderMax(data) ==
    SetMax({50} \cup {CeilDiv(data[i].items_count, 10) * 10 : i \in DOMAIN data})

\* updateSiteFilterOptions() and updateMinItemsSlider() on the filters
FiltersAfterLoad(f, data) ==
    [f EXCEPT !.site = SiteKept(f, data),
              !.minItems = SetMin({f.minItems, SliderMax(data)})]

\* A variant that keeps a session as soon as one filter that is set keeps it
PassesFiltersAnyOf(entry, f) ==
    \/ trim(f.search) # <<>> /\ includes(entry.search_index, trim(f.search))
    \/ f.startDate # Null /\ entry.timestamp_obj # Null
          /\ entry.timestamp_obj.h >= f.startDate.h
    \/ f.endDate # Null /\ entry.timestamp_obj # Null
          /\ entry.timestamp_obj.h <= f.endDate.h
    \/ f.minItems # 0 /\ entry.items_count >= f.minItems
    \/ f.site # <<>> /\ f.site \in Range(entry.host_list)
    \/ f = defaultFilterState

\* part_000 applyFilters: the test of historyData.filter
PassesFilters(entry, f) ==
    /\ ~(trim(f.search) # <<>> /\ ~includes(entry.search_index, trim(f.search)))
    /\ f.startDate # Null
          => /\ entry.timestamp_obj # Null
             /\ ~(entry.timestamp_obj.h < f.startDate.h)
    /\ f.endDate # Null
          => /\ entry.timestamp_obj # Null
             /\ ~(entry.timestamp_obj.h > f.endDate.h)
    /\ ~(f.minItems # 0 /\ entry.items_count < f.minItems)
    /\ ~(f.site # <<>> /\ f.site \notin Range(entry.host_list))

\* part_000 applyFilters: filteredHistory
FilterHistory(data, f) ==
    LET Kept(entry) == PassesFilters(entry, f)
    IN  SelectSeq(data, Kept)

\* renderHistory: Array.prototype.sort is stable; a session goes behind the
\* sessions that are not older than it
InsertByTime(sorted, entry) ==
    LET before == Cardinality({i \in 1..Len(sorted) :
                     sorted[i].timestamp_ms >= entry.timestamp_ms})
    IN  SubSeq(sorted, 1, before) \o <<entry>>
            \o SubSeq(sorted, before + 1, Len(sorted))

RECURSIVE SortByTime(_)
SortByTime(list) ==
    IF list = <<>> THEN <<>>
    ELSE InsertByTime(SortByTime(SubSeq(list, 1, Len(list) - 1)), list[Len(list)])

\* part_000 renderHistory(list): one card for each session, newest first
renderHistory(list) ==
    [i \in 1..Len(list) |-> SortByTime(list)[i].id]

\* The steps of the history page leave the other pages and the backend alone
HistoryFrame == UNCHANGED <<ledgerVars, renderVars, normVars, listVars, jobVars, progressVars, themeVars, savedVars, compareVars, cleanupVars, categoryVars>>

\* part_000 init(): the filters are reset and the first load is under way
HistoryInit ==
    /\ LedgerEmpty
    /\ RenderIdle
    /\ NormIdle
    /\ ListIdle
    /\ JobIdle
    /\ ProgressIdle
    /\ ThemeIdle
    /\ SavedIdle
    /\ CompareIdle
    /\ CleanupIdle
    /\ CategoryIdle
    /\ historyData = <<>>
    /\ filteredHistory = <<>>
    /\ filterState = defaultFilterState
    /\ historyContainer = <<>>
    /\ historyLoads = 1

\* part_000 applyFilters(), for the sessions and filters the step leaves
ApplyHistoryFilters ==
    /\ filteredHistory' = FilterHistory(historyData', filterState')
    /\ historyContainer' = renderHistory(FilterHistory(historyData', filterState'))

\* part_000 loadHistory(): the response arrives
HistoryLoaded ==
    /\ historyLoads > 0
    /\ historyLoads' = historyLoads - 1
    /\ \E raw \in Histories :
          historyData' = [i \in 1..Len(raw) |-> normalizeHistoryEntry(raw[i])]
    /\ filterState' = FiltersAfterLoad(filterState, historyData')
    /\ ApplyHistoryFilters
    /\ HistoryFrame

\* part_000 loadHistory(): the request fails
HistoryLoadFailed ==
    /\ historyLoads > 0
    /\ historyLoads' = historyLoads - 1
    /\ historyData' = <<>>
    /\ filteredHistory' = <<>>
    /\ filterState' = FiltersAfterLoad(filterState, <<>>)
    /\ historyContainer' = renderHistory(<<>>)
    /\ HistoryFrame

\* The refresh button: loadHistory() up to its fetch
RefreshHistory ==
    /\ historyLoads < MaxInFlight
    /\ historyLoads' = historyLoads + 1
    /\ UNCHANGED <<historyData, filteredHistory, filterState, historyContainer>>
    /\ HistoryFrame

\* The cleanup dialog, after a successful cleanup: the data are dropped and
\* loaded again
CleanupDone ==
    /\ historyLoads < MaxInFlight
    /\ historyLoads' = historyLoads + 1
    /\ historyData' = <<>>
    /\ filteredHistory' = <<>>
    /\ filterState' = FiltersAfterLoad(filterState, <<>>)
    /\ UNCHANGED historyContainer
    /\ HistoryFrame

\* part_000 deleteHistory(historyId), after a successful DELETE
DeleteHistory ==
    /\ \E i \in DOMAIN historyData :
          historyData' = SelectSeq(historyData,
                                   LAMBDA entry : entry.id # historyData[i].id)
    /\ filterState' = FiltersAfterLoad(filterState, historyData')
    /\ ApplyHistoryFilters
    /\ UNCHANGED historyLoads
    /\ HistoryFrame

\* The search box: input
SearchTyped ==
    /\ \E text \in SearchInputs :
          filterState' = [filterState EXCEPT !.search = toLowerCase(trim(text))]
    /\ UNCHANGED <<historyData, historyLoads>>
    /\ ApplyHistoryFilters
    /\ HistoryFrame

\* The start date: change
StartDateChanged ==
    /\ \E value \in DateInputs :
          filterState' = [filterState EXCEPT
                             !.startDate = parseDateInput(value, FALSE)]
    /\ UNCHANGED <<historyData, historyLoads>>
    /\ ApplyHistoryFilters
    /\ HistoryFrame

\* The end date: change
EndDateChanged ==
    /\ \E value \in DateInputs :
          filterState' = [filterState EXCEPT
                             !.endDate = parseDateInput(value, TRUE)]
    /\ UNCHANGED <<historyData, historyLoads>>
    /\ ApplyHistoryFilters
    /\ HistoryFrame

\* The minimum items slider: input
MinItemsChanged ==
    /\ \E value \in MinItemsInputs :
          filterState' = [filterState EXCEPT !.minItems = SetMax({0, value})]
    /\ UNCHANGED <<historyData, historyLoads>>
    /\ ApplyHistoryFilters
    /\ HistoryFrame

\* The site selector: change to one of its options
SiteChanged ==
    /\ \E site \in SiteOptions(historyData) \cup {<<>>} :
          filterState' = [filterState EXCEPT !.site = site]
    /\ UNCHANGED <<historyData, historyLoads>>
    /\ ApplyHistoryFilters
    /\ HistoryFrame

\* part_000 resetFilters(): the clear button
ClearFilters ==
    /\ filterState' = defaultFilterState
    /\ UNCHANGED <<historyData, historyLoads>>
    /\ ApplyHistoryFilters
    /\ HistoryFrame

HistoryNext ==
    \/ HistoryLoaded
    \/ HistoryLoadFailed
    \/ RefreshHistory
    \/ CleanupDone
    \/ DeleteHistory
    \/ SearchTyped
    \/ StartDateChanged
    \/ EndDateChanged
    \/ MinItemsChanged
    \/ SiteChanged
    \/ ClearFilters

SpecHistory == HistoryInit /\ [][HistoryNext]_vars

-----------------------------------------------------------------------------
(* Claims about the history filters *)

\* A loaded session satisfies every filter that is set
SatisfiesSetFilters(entry, f) ==
    /\ f.search # <<>> => includes(entry.search_index, f.search)
    /\ f.startDate # Null
          => entry.timestamp_obj # Null /\ entry.timestamp_obj.h >= f.startDate.h
    /\ f.endDate # Null
          => entry.timestamp_obj # Null /\ entry.timestamp_obj.h <= f.endDate.h
    /\ f.minItems > 0 => entry.items_count >= f.minItems
    /\ f.site # <<>> => f.site \in Range(entry.host_list)

\* The ids of the loaded sessions that satisfy every filter that is set
SessionsToShow ==
    {historyData[i].id :
        i \in {j \in DOMAIN historyData :
                  SatisfiesSetFilters(historyData[j], filterState)}}

-----------------------------------------------------------------------------
(* The scrape job the dashboard tracks (results.js) *)

NoJob == [none |-> TRUE]
NoObservation == [none |-> TRUE]

\* The id of the job the server runs, and an id kept in the browser from an
\* earlier visit that the server does not know
JobId == [job |-> "job-1"]
OldJobId == [job |-> "job-0"]

\* A variant that takes a job that is being cancelled to have ended
ActiveStatusesWithoutCancelling == {"running", "queued"}

\* pollJobStatus, pollJobStatusSilent, loadSummary, updateLiveIndicators:
\* ['running', 'queued', 'cancelling']
ActiveStatuses == {"running", "queued", "cancelling"}

\* The last_error texts of a failed job
ErrorTexts == {"", "Timeout"}

\* (data.status || 'idle').toUpperCase(), tabulated over the status words
StatusUpperCase(status) ==
    CASE status = "" -> "IDLE"
      [] status = "queued" -> "QUEUED"
      [] status = "running" -> "RUNNING"
      [] status = "cancelling" -> "CANCELLING"
      [] status = "done" -> "DONE"
      [] status = "cancelled" -> "CANCELLED"
      [] status = "error" -> "ERROR"
      [] status = "failed" -> "FAILED"

\* results.js updateRunMeta(job): the status word the run meta line starts
\* with
updateRunMeta(shown, job) ==
    [shown EXCEPT !.meta = formatJobStatus(job)]

\* A variant that shows the error box only while the job is active
updateJobStatusHidesError(shown, data) ==
    updateRunMeta(
        [shown EXCEPT
            !.status = StatusUpperCase(data.status),
            !.errorShown = data.last_error # "" /\ data.status \in ActiveStatuses,
            !.errorText = IF data.last_error # "" /\ data.status \in ActiveStatuses
                          THEN data.last_error ELSE @],
        data)

\* results.js updateJobStatus(data): the status word, the error box and the
\* run meta line
updateJobStatus(shown, data) ==
    updateRunMeta(
        [shown EXCEPT
            !.status = StatusUpperCase(data.status),
            !.errorShown = data.last_error # "",
            !.errorText = IF data.last_error # "" THEN data.last_error ELSE @],
        data)

\* results.js updateLiveIndicators(data): the live indicator, the Run and
\* Stop buttons and the run meta line
updateLiveIndicators(shown, data) ==
    updateRunMeta([shown EXCEPT !.live = data.status \in ActiveStatuses], data)

\* A request about a job
JobRequest(kind, id) == [kind |-> kind, job_id |-> id]

\* pollJobStatus(), pollJobStatusSilent(): nothing is asked without a
\* current job
PollRequests(kind, id) == IF id = Null THEN {} ELSE {JobRequest(kind, id)}

\* pollJobStatus(): the number of status requests a call sends; none without
\* a current job
Polls(id) == IF id = Null THEN 0 ELSE 1

\* The poll chains of the page: each pending status request of pollJobStatus
\* and each pending setTimeout of it is one chain that reschedules itself
PollChains == pollTimer + pollsInFlight

\* The steps about the job leave the other pages and the backend alone
JobFrame == UNCHANGED <<ledgerVars, renderVars, normVars, listVars, historyVars, progressVars, themeVars, savedVars, compareVars, cleanupVars, categoryVars>>

\* init(): loadDashboard asks for the summary, restoreActiveJob takes up the
\* stored job id, if any, and polls it silently
JobInit ==
    /\ LedgerEmpty
    /\ RenderIdle
    /\ NormIdle
    /\ ListIdle
    /\ HistoryIdle
    /\ ProgressIdle
    /\ ThemeIdle
    /\ SavedIdle
    /\ CompareIdle
    /\ CleanupIdle
    /\ CategoryIdle
    /\ serverJob = NoJob
    /\ storedJobId \in {Null, OldJobId}
    /\ currentJobId = storedJobId
    /\ jobRequests = {JobRequest("summary", Null)}
                        \cup PollRequests("silent", storedJobId)
    /\ pollTimer = 0
    /\ pollsInFlight = 0
    /\ jobView = [status |-> "", errorShown |-> FALSE, errorText |-> "",
                  meta |-> "", live |-> FALSE]
    /\ lastObserved = NoObservation

\* startScrape() up to its fetch; the Run button is disabled while a job is
\* shown as running
StartScrape ==
    /\ serverJob = NoJob
    /\ ~jobView.live
    /\ jobRequests' = jobRequests \cup {JobRequest("start", Null)}
    /\ UNCHANGED <<serverJob, currentJobId, storedJobId, pollTimer, pollsInFlight, jobView,
                   lastObserved>>
    /\ JobFrame

\* startScrape(): the server queues the job; the dashboard takes its id,
\* stores it, shows it as queued and polls it
StartAccepted ==
    /\ JobRequest("start", Null) \in jobRequests
    /\ serverJob = NoJob
    /\ serverJob' = [status |-> "queued", cancel_requested |-> FALSE,
                     last_error |-> ""]
    /\ currentJobId' = JobId
    /\ storedJobId' = JobId
    /\ jobView' = updateRunMeta(jobView, [status |-> "queued",
                                          cancel_requested |-> FALSE])
    /\ jobRequests' = jobRequests \ {JobRequest("start", Null)}
    /\ pollsInFlight' = pollsInFlight + 1
    /\ UNCHANGED <<pollTimer, lastObserved>>
    /\ JobFrame

\* A request fails or is answered with a response that is not OK: the
\* handler shows or logs the error and changes nothing else.  A request
\* about a job the server does not know ends this way.
RequestFailed ==
    /\ \E req \in jobRequests : jobRequests' = jobRequests \ {req}
    /\ UNCHANGED <<serverJob, currentJobId, storedJobId, pollTimer, pollsInFlight, jobView,
                   lastObserved>>
    /\ JobFrame

\* The server answers a request about the job it runs
Answers(req) ==
    /\ req \in jobRequests
    /\ serverJob # NoJob
    /\ req.job_id = JobId

\* pollJobStatus(): the status request fails or its response is not OK; the
\* error is logged and no timer is set
StatusFailed ==
    /\ pollsInFlight > 0
    /\ pollsInFlight' = pollsInFlight - 1
    /\ UNCHANGED <<serverJob, currentJobId, storedJobId, jobRequests, pollTimer,
                   jobView, lastObserved>>
    /\ JobFrame

\* pollJobStatus(): an OK response; while the job is active the next poll is
\* set for 2 s later, and once it has ended loadDashboard() asks for the
\* summary again
StatusAnswered ==
    /\ pollsInFlight > 0
    /\ serverJob # NoJob
    /\ pollsInFlight' = pollsInFlight - 1
    /\ jobView' = updateLiveIndicators(updateJobStatus(jobView, serverJob),
                                       serverJob)
    /\ lastObserved' = [status |-> serverJob.status,
                        last_error |-> serverJob.last_error, by |-> "status"]
    /\ IF serverJob.status \in ActiveStatuses
       THEN /\ pollTimer' = pollTimer + 1
            /\ UNCHANGED <<currentJobId, storedJobId, jobRequests>>
       ELSE /\ currentJobId' = Null
            /\ storedJobId' = Null
            /\ jobRequests' = jobRequests \cup {JobRequest("summary", Null)}
            /\ UNCHANGED pollTimer
    /\ UNCHANGED serverJob
    /\ JobFrame

\* pollJobStatusSilent(): an OK response
SilentAnswered ==
    /\ Answers(JobRequest("silent", JobId))
    /\ jobView' = updateLiveIndicators(jobView, serverJob)
    /\ lastObserved' = [status |-> serverJob.status,
                        last_error |-> serverJob.last_error, by |-> "silent"]
    /\ IF serverJob.status \in ActiveStatuses
       THEN /\ jobRequests' = jobRequests \ {JobRequest("silent", JobId)}
            /\ UNCHANGED <<currentJobId, storedJobId>>
       ELSE /\ currentJobId' = Null
            /\ storedJobId' = Null
            /\ jobRequests' = (jobRequests \ {JobRequest("silent", JobId)})
                                 \cup {JobRequest("summary", Null)}
    /\ UNCHANGED <<serverJob, pollTimer, pollsInFlight>>
    /\ JobFrame

\* loadSummary(): an OK response without a job
SummaryWithoutJob ==
    /\ JobRequest("summary", Null) \in jobRequests
    /\ serverJob = NoJob
    /\ jobRequests' = jobRequests \ {JobRequest("summary", Null)}
    /\ jobView' = [jobView EXCEPT
                      !.meta = "No active scrape. Start a new run to see live progress."]
    /\ UNCHANGED <<serverJob, currentJobId, storedJobId, pollTimer, pollsInFlight,
                   lastObserved>>
    /\ JobFrame

\* loadSummary(): an OK response with the job of the server
SummaryWithJob ==
    /\ JobRequest("summary", Null) \in jobRequests
    /\ serverJob # NoJob
    /\ jobView' = updateLiveIndicators(updateJobStatus(jobView, serverJob),
                                       serverJob)
    /\ lastObserved' = [status |-> serverJob.status,
                        last_error |-> serverJob.last_error, by |-> "summary"]
    /\ IF serverJob.status \in ActiveStatuses
       THEN /\ currentJobId' = JobId
            /\ storedJobId' = JobId
            /\ jobRequests' = (jobRequests \ {JobRequest("summary", Null)})
                                 \cup {JobRequest("silent", JobId)}
       ELSE /\ currentJobId' = Null
            /\ storedJobId' = Null
            /\ jobRequests' = jobRequests \ {JobRequest("summary", Null)}
    /\ UNCHANGED <<serverJob, pollTimer, pollsInFlight>>
    /\ JobFrame

\* The setTimeout of pollJobStatus fires: pollJobStatus()
PollTimerFires ==
    /\ pollTimer > 0
    /\ pollTimer' = pollTimer - 1
    /\ pollsInFlight' = pollsInFlight + Polls(currentJobId)
    /\ UNCHANGED <<serverJob, currentJobId, storedJobId, jobRequests, jobView,
                   lastObserved>>
    /\ JobFrame

\* startPolling(): every 5 s, loadSummary() and, with a current job,
\* pollJobStatusSilent()
PollingInterval ==
    /\ jobRequests' = jobRequests \cup {JobRequest("summary", Null)}
                         \cup PollRequests("silent", currentJobId)
    /\ UNCHANGED <<serverJob, currentJobId, storedJobId, pollTimer, pollsInFlight, jobView,
                   lastObserved>>
    /\ JobFrame

\* requestStopScrape() up to its fetch
requestStopScrape ==
    /\ currentJobId # Null
    /\ PollChains < MaxChains
    /\ jobRequests' = jobRequests \cup {JobRequest("stop", currentJobId)}
    /\ UNCHANGED <<serverJob, currentJobId, storedJobId, pollTimer, pollsInFlight, jobView,
                   lastObserved>>
    /\ JobFrame

\* requestStopScrape(): the server acknowledges the stop request, and the
\* job, if it has not ended, is cancelling from then on; pollJobStatus()
StopAcknowledged ==
    /\ Answers(JobRequest("stop", JobId))
    /\ serverJob' = IF serverJob.status \in {"queued", "running"}
                    THEN [serverJob EXCEPT !.status = "cancelling",
                                           !.cancel_requested = TRUE]
                    ELSE serverJob
    /\ jobRequests' = jobRequests \ {JobRequest("stop", JobId)}
    /\ pollsInFlight' = pollsInFlight + Polls(currentJobId)
    /\ UNCHANGED <<currentJobId, storedJobId, pollTimer, jobView, lastObserved>>
    /\ JobFrame

\* spec 4.3: the worker pool picks the job up
JobRuns ==
    /\ serverJob # NoJob
    /\ serverJob.status = "queued"
    /\ serverJob' = [serverJob EXCEPT !.status = "running"]
    /\ UNCHANGED <<currentJobId, storedJobId, jobRequests, pollTimer, pollsInFlight, jobView,
                   lastObserved>>
    /\ JobFrame

\* spec 4.3: the job ends: done, or failed with its last_error
JobEnds ==
    /\ serverJob # NoJob
    /\ serverJob.status = "running"
    /\ \/ serverJob' = [serverJob EXCEPT !.status = "done"]
       \/ \E status \in {"error", "failed"}, text \in ErrorTexts :
             serverJob' = [serverJob EXCEPT !.status = status,
                                            !.last_error = text]
    /\ UNCHANGED <<currentJobId, storedJobId, jobRequests, pollTimer, pollsInFlight, jobView,
                   lastObserved>>
    /\ JobFrame

\* spec 4.3, spec 5: the worker sees the cancellation at its next checkpoint
JobCancelled ==
    /\ serverJob # NoJob
    /\ serverJob.status = "cancelling"
    /\ serverJob' = [serverJob EXCEPT !.status = "cancelled"]
    /\ UNCHANGED <<currentJobId, storedJobId, jobRequests, pollTimer, pollsInFlight, jobView,
                   lastObserved>>
    /\ JobFrame

JobNext ==
    \/ StartScrape
    \/ StartAccepted
    \/ RequestFailed
    \/ StatusFailed
    \/ StatusAnswered
    \/ SilentAnswered
    \/ SummaryWithoutJob
    \/ SummaryWithJob
    \/ PollTimerFires
    \/ PollingInterval
    \/ requestStopScrape
    \/ StopAcknowledged
    \/ JobRuns
    \/ JobEnds
    \/ JobCancelled

SpecJob == JobInit /\ [][JobNext]_vars

\* Timers fire, requests are answered one way or the other, and the job on
\* the server makes progress
JobFairness ==
    /\ WF_vars(PollTimerFires)
    /\ WF_vars(PollingInterval)
    /\ WF_vars(StartAccepted \/ StatusAnswered \/ SilentAnswered
                 \/ SummaryWithoutJob \/ SummaryWithJob \/ StopAcknowledged
                 \/ RequestFailed \/ StatusFailed)
    /\ WF_vars(JobRuns)
    /\ WF_vars(JobEnds)
    /\ WF_vars(JobCancelled)

SpecJobFair == JobInit /\ [][JobNext]_vars /\ JobFairness

\* C16: the set of statuses the claim names
ClaimedActive == {"queued", "running", "cancelling"}

\* The step handles a status or summary response
ObservationStep ==
    /\ lastObserved' # NoObservation
    /\ \/ pollsInFlight' = pollsInFlight - 1
       \/ \E req \in jobRequests \ jobRequests' :
             req.kind \in {"silent", "summary"}

\* The step sends a stop request or handles its outcome
StopStep ==
    \E req \in (jobRequests' \ jobRequests) \cup (jobRequests \ jobRequests') :
       req.kind = "stop"

\* The step clears the job id the variable holds
Clears(id) == id # Null /\ id' = Null

\* The job is shown as ended: the live indicator is off and the dashboard
\* tracks no job
ShownAsEnded == ~jobView.live /\ currentJobId = Null /\ storedJobId = Null

\* While the last observed status is active the job is tracked and shown as
\* live, and otherwise it is shown as ended; a cancelled job is labelled
\* Cancelled and a failed one Failed
ActiveWhileObservedActive ==
    lastObserved # NoObservation =>
       /\ lastObserved.status \in ClaimedActive
             => jobView.live /\ currentJobId = JobId /\ storedJobId = JobId
       /\ lastObserved.status \notin ClaimedActive => ShownAsEnded
       /\ lastObserved.status = "cancelled" => jobView.meta = "Cancelled"
       /\ lastObserved.status \in {"error", "failed"} => jobView.meta = "Failed"

\* The job ids are cleared only by a step that handles a status or summary
\* response with a status outside the set, and never by a stop step
ClearedOnlyWhenObservedEnded ==
    /\ Clears(currentJobId) \/ Clears(storedJobId)
          => ObservationStep /\ lastObserved'.status \notin ClaimedActive
    /\ StopStep => UNCHANGED <<currentJobId, storedJobId>>

C17_TrackingEventuallyEnds ==
    (currentJobId # Null) ~> (currentJobId = Null)

\* The stored job id was taken up, its silent poll failed, the summary came
\* without a job, and the dashboard still tracks the id with nothing pending
C17_Witness ==
    /\ currentJobId = OldJobId
    /\ storedJobId = OldJobId
    /\ serverJob = NoJob
    /\ jobRequests = {}
    /\ PollChains = 0
    /\ lastObserved = NoObservation
    /\ jobView.meta = "No active scrape. Start a new run to see live progress."

\* The last status the dashboard saw came through updateJobStatus (the modal
\* poll or the summary) and reports a failure with an error text
FailureReported ==
    /\ lastObserved # NoObservation
    /\ lastObserved.by \in {"status", "summary"}
    /\ lastObserved.status \in {"error", "failed"}
    /\ lastObserved.last_error # ""

-----------------------------------------------------------------------------
(* The category progress battery (results.js updateCategoryProgress) *)

\* The number of categories of a site
MaxCategories == 4

\* completion_pct as the summary may carry it, in hundredths of a percent
CompletionInputs ==
    {Undefined} \cup
    {Num(c, 0) : c \in {-500, 0, 2999, 3000, 3001, 5000, 7000, 7001, 7499,
                        7500, 10000, 12000}}

\* A percentage as an exact fraction n / d, d > 0
Fraction(n, d) == [n |-> n, d |-> d]

\* p >= k and p <= k for an integer k
AtLeast(p, k) == p.n >= k * p.d
AtMost(p, k) == p.n <= k * p.d

\* Number.isFinite(completion_pct) ? Number(completion_pct)
\*     : total > 0 ? (completed / total) * 100 : 0
Percentage(stats) ==
    IF IsFinite(stats.completion_pct) THEN Fraction(stats.completion_pct.c, 100)
    ELSE IF stats.total > 0 THEN Fraction(stats.completed * 100, stats.total)
    ELSE Fraction(0, 1)

\* Math.max(0, Math.min(100, percentage))
Clamp(p) ==
    IF AtLeast(p, 100) THEN Fraction(100, 1)
    ELSE IF AtMost(p, 0) THEN Fraction(0, 1)
    ELSE p


\* let color = '#ef4444'; if (clamped >= 75) color = '#10b981';
\* else if (clamped >= 30) color = '#f59e0b'
BatteryColor(clamped) ==
    IF AtLeast(clamped, 75) THEN "#10b981"
    ELSE IF AtLeast(clamped, 30) THEN "#f59e0b"
    ELSE "#ef4444"

\* The battery drawn for a percentage
BatteryOf(clamped) == [width |-> clamped, color |-> BatteryColor(clamped)]

ProgressFrame == UNCHANGED <<ledgerVars, renderVars, normVars, listVars, historyVars, jobVars, themeVars, savedVars, compareVars, cleanupVars, categoryVars>>

\* A summary has arrived with its category stats and is not drawn yet
ProgressInit ==
    /\ LedgerEmpty
    /\ RenderIdle
    /\ NormIdle
    /\ ListIdle
    /\ HistoryIdle
    /\ JobIdle
    /\ ThemeIdle
    /\ SavedIdle
    /\ CompareIdle
    /\ CleanupIdle
    /\ CategoryIdle
    /\ categoryStats \in [completed : 0..MaxCategories,
                          total : 0..MaxCategories,
                          completion_pct : CompletionInputs]
    /\ battery = NotLoaded

\* results.js updateCategoryProgress(stats)
updateCategoryProgress ==
    /\ battery = NotLoaded
    /\ battery' = BatteryOf(Clamp(Percentage(categoryStats)))
    /\ UNCHANGED categoryStats
    /\ ProgressFrame

ProgressNext == updateCategoryProgress

SpecProgress == ProgressInit /\ [][ProgressNext]_vars

\* The colours the claim names
ClaimedColor(p) ==
    IF AtMost(p, 30) THEN "#ef4444"
    ELSE IF AtMost(p, 70) THEN "#f59e0b"
    ELSE "#10b981"

\* C19: the progress indicator is red when the completion percentage is
\* <= 30, amber when it is > 30 and <= 70, and green when it is > 70, with
\* the percentage clamped to the range 0..100.
C19_ColourByThirtyAndSeventy ==
    battery # NotLoaded =>
       /\ AtLeast(battery.width, 0)
       /\ AtMost(battery.width, 100)
       /\ battery.color = ClaimedColor(battery.width)

\* At exactly 30 percent the battery is drawn amber
C19_Witness ==
    /\ battery # NotLoaded
    /\ categoryStats.completion_pct = Num(3000, 0)
    /\ battery.width = Fraction(3000, 100)
    /\ battery.color = "#f59e0b"

-----------------------------------------------------------------------------
(* The light and dark theme of the pages (theme.js) *)

\* const DEFAULT_THEME = 'dark'
DEFAULT_THEME == Str("dark")

\* The pages that load theme.js and hand their switch to initToggle
ThemePages == {"index", "results", "history"}

\* What localStorage may hold under msx_theme when a page loads
StoredThemes ==
    {Null, Str("light"), Str("dark"), Str(""), Str("blue"), Str("LIGHT")}

\* localStorage works, cannot be reached (safeLocalStorage returns null), or
\* refuses to write (setItem throws)
StorageStates == {"works", "unavailable", "readonly"}

\* systemPreference(): 'dark', 'light', or null without matchMedia
SystemThemes == {Null, Str("light"), Str("dark")}

\* The theme no toggle has chosen yet
NoChoice == [none |-> TRUE]

\* A value that an if or an || takes as true
Truthy(v) == v # Null /\ v # Str("")

\* A variant that lets any stored text through
normalizeThemeAsIs(candidate) == candidate

\* normalizeTheme(candidate)
normalizeTheme(candidate) ==
    IF candidate = Str("light") THEN Str("light") ELSE Str("dark")

\* readStoredTheme()
readStoredTheme(state, stored) ==
    IF state = "unavailable" THEN Null ELSE stored

\* writeStoredTheme(theme): the value of the storage afterwards
writeStoredTheme(state, stored, theme) ==
    IF state = "works" THEN theme ELSE stored

\* currentTheme()
currentTheme(attr, state, stored, system) ==
    IF Truthy(attr) THEN normalizeTheme(attr)
    ELSE IF Truthy(readStoredTheme(state, stored))
         THEN normalizeTheme(readStoredTheme(state, stored))
    ELSE IF Truthy(system) THEN normalizeTheme(system)
    ELSE DEFAULT_THEME

\* applyTheme(theme, shouldPersist): finalTheme
applyTheme(theme, attr, state, stored, system) ==
    normalizeTheme(IF Truthy(theme) THEN theme
                   ELSE currentTheme(attr, state, stored, system))

\* bootstrap() on a page that has just loaded, whose root element has no
\* data-bs-theme attribute yet: applyTheme(currentTheme(), false)
bootstrap(state, stored, system) ==
    applyTheme(currentTheme(Null, state, stored, system), Null, state, stored,
               system)

\* syncToggleState(toggle): toggle.checked = currentTheme() === 'dark'
syncToggleState(attr, state, stored, system) ==
    currentTheme(attr, state, stored, system) = Str("dark")

ThemeFrame == UNCHANGED <<ledgerVars, renderVars, normVars, listVars, historyVars, jobVars, progressVars, savedVars, compareVars, cleanupVars, categoryVars>>

\* A page has loaded: theme.js has run bootstrap() and the page's script has
\* called initToggle
ThemeInit ==
    /\ LedgerEmpty
    /\ RenderIdle
    /\ NormIdle
    /\ ListIdle
    /\ HistoryIdle
    /\ JobIdle
    /\ ProgressIdle
    /\ SavedIdle
    /\ CompareIdle
    /\ CleanupIdle
    /\ CategoryIdle
    /\ themePage \in ThemePages
    /\ storedTheme \in StoredThemes
    /\ storageState \in StorageStates
    /\ systemTheme \in SystemThemes
    /\ themeAttr = bootstrap(storageState, storedTheme, systemTheme)
    /\ toggleChecked = syncToggleState(themeAttr, storageState, storedTheme,
                                       systemTheme)
    /\ chosenTheme = NoChoice
    /\ themeStep = "load"

\* The user opens or reloads a page: bootstrap(), then initToggle
LoadPage ==
    /\ \E page \in ThemePages : themePage' = page
    /\ themeAttr' = bootstrap(storageState, storedTheme, systemTheme)
    /\ toggleChecked' = syncToggleState(themeAttr', storageState, storedTheme,
                                        systemTheme)
    /\ themeStep' = "load"
    /\ UNCHANGED <<storedTheme, storageState, systemTheme, chosenTheme>>
    /\ ThemeFrame

\* initToggle: onToggleChange, applyTheme(nextTheme), and the themechange
\* event that calls syncToggleState
onToggleChange ==
    /\ themeAttr' = applyTheme(IF ~toggleChecked THEN Str("dark")
                                ELSE Str("light"),
                               themeAttr, storageState, storedTheme,
                               systemTheme)
    /\ storedTheme' = writeStoredTheme(storageState, storedTheme, themeAttr')
    /\ toggleChecked' = syncToggleState(themeAttr', storageState, storedTheme',
                                        systemTheme)
    /\ chosenTheme' = IF ~toggleChecked THEN Str("dark") ELSE Str("light")
    /\ themeStep' = "toggle"
    /\ UNCHANGED <<themePage, storageState, systemTheme>>
    /\ ThemeFrame

ThemeNext == LoadPage \/ onToggleChange

SpecTheme == ThemeInit /\ [][ThemeNext]_vars

\* The applied theme is light or dark
AppliedLightOrDark == themeAttr \in {Str("light"), Str("dark")}

\* The page has loaded after a toggle chose a theme
LoadedAfterChoice == themeStep = "load" /\ chosenTheme # NoChoice

-----------------------------------------------------------------------------
(* The delta of a price change without a difference *)

\* The change is a price change whose difference is null or absent and whose
\* old and new values both resolve to finite numbers
ResolvedWithoutDifference ==
    /\ Rendered
    /\ LowerType(change.change_type) = "price"
    /\ IsNullish(change.difference)
    /\ ResolveNumeric(change, "new") # Null
    /\ ResolveNumeric(change, "old") # Null

\* The card reports the number d: nothing when |d| < 1e-9, else its
\* magnitude with the direction and sign of d
Reports(d) ==
    IF BelowEpsilon(d) THEN view.delta = Null
    ELSE /\ view.delta # Null
         /\ view.delta.amount = formatCurrency(AbsNumber(d))
         /\ view.delta.direction = (IF IsPositive(d) THEN "up" ELSE "down")
         /\ view.delta.sign = (IF IsPositive(d) THEN "+" ELSE "-")

\* C29: for a price change whose difference field is null or absent and
\* whose old and new values both resolve to finite numbers, the delta that
\* formatDelta reports equals new - old, with direction given by its sign.
C29_DeltaFromResolvedValues ==
    ResolvedWithoutDifference =>
       Reports(Minus(ResolveNumeric(change, "new"),
                     ResolveNumeric(change, "old")))

\* A price change from 19.99 to 17.99 with difference null is drawn without
\* a delta
C29_Witness ==
    /\ Rendered
    /\ change.change_type = "price"
    /\ change.difference = Null
    /\ change.old_value = Num(1999, 0)
    /\ change.new_value = Num(1799, 0)
    /\ view.delta = Null

\* C24: at most one self-rescheduling pollJobStatus chain exists at any
\* time: starting a scrape, requesting stop and restoring an active job
\* never leave two poll chains running on the page.
C24_AtMostOnePollChain == PollChains <= 1

\* The chain started by startScrape waits on its timer while the poll that
\* requestStopScrape started is in flight, for a job that is being cancelled
C24_Witness ==
    /\ pollTimer = 1
    /\ pollsInFlight = 1
    /\ currentJobId = JobId
    /\ serverJob # NoJob
    /\ serverJob.status = "cancelling"
    /\ serverJob.cancel_requested

-----------------------------------------------------------------------------
(* The list of recent changes under overlapping requests *)

\* The response to the request that the page, page size and filters now set
\* would send: the most recently issued request
LatestPayload == recent_changes(RequestParams(currentPage, itemsPerPage, filters))

\* The step shows the response to the last outstanding request
LastResponseShown ==
    /\ requests # {}
    /\ requests' = {}
    /\ <<latestChanges, totalRecords, pagination>>'
          # <<latestChanges, totalRecords, pagination>>

\* C25: whatever the order in which the responses arrive, once all
\* outstanding requests have completed, the displayed changes, total and
\* page info are those of the most recently issued request.
C25_LatestRequestWins ==
    [][LastResponseShown =>
          /\ latestChanges' = sortChanges(LatestPayload.items, filters.sortMode)
          /\ totalRecords' = LatestPayload.total
          /\ pagination' = updatePagination(LatestPayload.total,
                                            LatestPayload.items,
                                            currentPage, itemsPerPage)]_vars

\* No request is outstanding, the search filter 'a' with its dates is set
\* and matches one change, and the list shows the total of all five changes
C25_Witness ==
    /\ requests = {}
    /\ filters # NotLoaded
    /\ filters.searchQuery = Text(<<"a">>)
    /\ currentPage = 1
    /\ FilteredCount(RequestParams(currentPage, itemsPerPage, filters)) = 1
    /\ totalRecords = 5
    /\ pagination.pageInfo = [page |-> 1, of |-> TotalPages(5, itemsPerPage)]

\* C26: once the list has been loaded, currentPage stays within
\* 1..max(1, ceil(totalRecords / itemsPerPage)) after any sequence of Next
\* and Previous clicks, filter, page-size and sort changes and refreshes.
C26_CurrentPageWithinPages ==
    pagination # InitialPagination =>
       /\ currentPage >= 1
       /\ currentPage <= PageCount(totalRecords, itemsPerPage)

\* With five changes and three to a page the list has settled on an empty
\* page 3 of 2, as after two clicks on Next before the first response
C26_Witness ==
    /\ requests = {}
    /\ pagination # InitialPagination
    /\ itemsPerPage = 3
    /\ totalRecords = 5
    /\ currentPage = 3
    /\ pagination.pageInfo = [page |-> 3, of |-> 2]
    /\ latestChanges = <<>>

-----------------------------------------------------------------------------
(* The results the extractor page keeps in the browser (main.js) *)

\* 24 * 60 * 60 * 1000 ms, in hours
ExpiryHours == 24

\* The clock moves in steps of half the expiry time
TickHours == ExpiryHours \div 2

\* The hours the model follows the page for
MaxHours == 60

\* What a fetch may return: items, and the models derived from the URLs
FetchedItems == {<<>>, <<"item-1">>, <<"item-1", "item-2">>}
FetchedModels == {<<>>, <<"iphone-15">>}

\* saveResults(items, models): the value stored
saveResults(items, models, clock) ==
    [items |-> items, models |-> models, timestamp |-> clock]

\* A variant in which results expire once they are 24 hours old
StillFreshBeforeADay(stored, clock) ==
    clock - stored.timestamp < ExpiryHours

\* loadResults(): the test that keeps stored results, !(age > 24 h)
StillFresh(stored, clock) ==
    ~(clock - stored.timestamp > ExpiryHours)

\* loadResults(): the data returned, or null
loadResults(stored, clock) ==
    IF stored = Null THEN Null
    ELSE IF StillFresh(stored, clock) THEN stored
    ELSE Null

\* loadResults(): what storage holds afterwards
StorageAfterLoad(stored, clock) ==
    IF stored # Null /\ ~StillFresh(stored, clock) THEN Null ELSE stored

\* restorePreviousResults: the items of a page that has just loaded
RestoredItems(savedData) ==
    IF savedData # Null /\ Len(savedData.items) > 0 THEN savedData.items
    ELSE <<>>

\* restorePreviousResults: the models of a page that has just loaded
RestoredModels(savedData) ==
    IF savedData # Null /\ Len(savedData.items) > 0
       /\ Len(savedData.models) > 0
    THEN savedData.models
    ELSE <<>>

SavedFrame == UNCHANGED <<ledgerVars, renderVars, normVars, listVars, historyVars, jobVars, progressVars, themeVars, compareVars, cleanupVars, categoryVars>>

\* The extractor page has loaded for the first time: nothing is stored
SavedInit ==
    /\ LedgerEmpty
    /\ RenderIdle
    /\ NormIdle
    /\ ListIdle
    /\ HistoryIdle
    /\ JobIdle
    /\ ProgressIdle
    /\ ThemeIdle
    /\ CompareIdle
    /\ CleanupIdle
    /\ CategoryIdle
    /\ extractorClock = 0
    /\ savedResults = Null
    /\ rawItems = <<>>
    /\ currentModels = <<>>
    /\ extractorStep = "load"

\* The run button: the old results are cleared, the fetch succeeds, and the
\* new results are shown and saved
FetchResults ==
    /\ \E items \in FetchedItems, models \in FetchedModels :
          /\ rawItems' = items
          /\ currentModels' = models
          /\ savedResults' = saveResults(items, models, extractorClock)
    /\ extractorStep' = "fetch"
    /\ UNCHANGED extractorClock
    /\ SavedFrame

\* The run button: the old results are cleared and the fetch fails
FetchFails ==
    /\ rawItems' = <<>>
    /\ savedResults' = Null
    /\ extractorStep' = "fetch"
    /\ UNCHANGED <<extractorClock, currentModels>>
    /\ SavedFrame

\* The Clear Results button, confirmed: clearResults()
ClearResults ==
    /\ rawItems' = <<>>
    /\ currentModels' = <<>>
    /\ savedResults' = Null
    /\ extractorStep' = "clear"
    /\ UNCHANGED extractorClock
    /\ SavedFrame

\* The page is loaded again: restorePreviousResults
RestorePreviousResults ==
    /\ rawItems' = RestoredItems(loadResults(savedResults, extractorClock))
    /\ currentModels' = RestoredModels(loadResults(savedResults, extractorClock))
    /\ savedResults' = StorageAfterLoad(savedResults, extractorClock)
    /\ extractorStep' = "load"
    /\ UNCHANGED extractorClock
    /\ SavedFrame

\* Time passes
HoursPass ==
    /\ extractorClock + TickHours <= MaxHours
    /\ extractorClock' = extractorClock + TickHours
    /\ extractorStep' = "wait"
    /\ UNCHANGED <<savedResults, rawItems, currentModels>>
    /\ SavedFrame

SavedNext ==
    \/ FetchResults
    \/ FetchFails
    \/ ClearResults
    \/ RestorePreviousResults
    \/ HoursPass

SpecSaved == SavedInit /\ [][SavedNext]_vars

\* Results are in storage and were saved no more than 24 hours ago
SavedWithinADay ==
    /\ savedResults # Null
    /\ extractorClock - savedResults.timestamp <= 24

\* Results are in storage and were saved more than 24 hours ago
SavedOverADayAgo ==
    /\ savedResults # Null
    /\ extractorClock - savedResults.timestamp > 24

-----------------------------------------------------------------------------
(* Comparison prices keyed several ways (main.js) *)

\* The rows of a comparison file the model uploads at most
MaxRows == 2

\* The words norm() removes
NormStopWords ==
    {<<"f", "o", "r">>, <<"w", "i", "t", "h">>, <<"w", "i", "t", "h", "o", "u", "t">>, <<"f", "r", "a", "m", "e">>, <<"l", "c", "d">>, <<"a", "s", "s", "e", "m", "b", "l", "y">>,
     <<"s", "c", "r", "e", "e", "n">>, <<"d", "i", "s", "p", "l", "a", "y">>, <<"s", "e", "r", "i", "e", "s">>, <<"m", "o", "d", "e", "l">>, <<"g", "l", "o", "b", "a", "l">>, <<"o", "r", "i", "g", "i", "n", "a", "l">>,
     <<"g", "r", "a", "d", "e">>, <<"v", "e", "r", "s", "i", "o", "n">>, <<"a", "n", "d">>, <<"t", "h", "e">>, <<"a">>, <<"a", "n">>}

\* The words that modelKey() takes for a model by name
ModelWords ==
    {<<"g", "a", "l", "a", "x", "y">>, <<"i", "p", "h", "o", "n", "e">>, <<"i", "p", "a", "d">>, <<"x", "m", "a", "x">>, <<"x", "s", "m", "a", "x">>, <<"p", "r", "o">>, <<"m", "a", "x">>,
     <<"m", "i", "n", "i">>, <<"s", "e">>, <<"p", "l", "u", "s">>}

RECURSIVE Words(_)
\* The maximal runs of [a-z0-9] in a lower-case string, in order
Words(s) ==
    IF \A i \in 1..Len(s) : s[i] \notin LowerAlnumChars THEN <<>>
    ELSE LET first == SetMin({i \in 1..Len(s) : s[i] \in LowerAlnumChars})
             ends == {j \in first..Len(s) :
                         j = Len(s) \/ s[j + 1] \notin LowerAlnumChars}
         IN  <<SubSeq(s, first, SetMin(ends))>>
                \o Words(SubSeq(s, SetMin(ends) + 1, Len(s)))

\* norm(s): lower case, everything outside [a-z0-9\s] made a space, the stop
\* words removed where they stand as whole words, runs of spaces made one,
\* trimmed; that is, the words that are not stop words, joined by one space
norm(s) ==
    Join(SelectSeq(Words(toLowerCase(s)), LAMBDA w : w \notin NormStopWords),
         <<" ">>)

\* [a-z]{1,3}-?\d{1,4}[a-z]? as a whole word of a normalised title (which
\* holds no hyphen)
IsModelCode(w) ==
    \E letters \in 1..3, digits \in 1..4, tail \in 0..1 :
       /\ Len(w) = letters + digits + tail
       /\ \A i \in 1..letters : w[i] \in LowerLetterChars
       /\ \A i \in (letters + 1)..(letters + digits) : IsDigit(w[i])
       /\ tail = 1 => w[Len(w)] \in LowerLetterChars

\* modelKey(title): the words of the normalised title that are a model code
\* or a model name, joined by a space, or the normalised title if none is
modelKey(title) ==
    IF SelectSeq(Words(norm(title)),
                 LAMBDA w : IsModelCode(w) \/ w \in ModelWords) = <<>>
    THEN norm(title)
    ELSE Join(SelectSeq(Words(norm(title)),
                        LAMBDA w : IsModelCode(w) \/ w \in ModelWords),
              <<" ">>)

\* The six keys of a title, site and url, in the order of the lookup; a key
\* that lacks a part is the empty string
CompareKeys(title, site, url) ==
    LET titleKey == toLowerCase(trim(title))
        normKey == norm(trim(title))
        modelKeyVal == modelKey(trim(title))
        siteKey == toLowerCase(trim(site))
        urlKey == toLowerCase(trim(url))
    IN  << IF urlKey # <<>> THEN <<"u", "r", "l", ":">> \o urlKey ELSE <<>>,
           IF siteKey # <<>> /\ titleKey # <<>>
           THEN <<"s", "i", "t", "e", ":">> \o siteKey \o <<":">> \o titleKey ELSE <<>>,
           IF titleKey # <<>> THEN <<"t", "i", "t", "l", "e", ":">> \o titleKey ELSE <<>>,
           IF siteKey # <<>> /\ modelKeyVal # <<>>
           THEN <<"s", "i", "t", "e", "-", "m", "o", "d", "e", "l", ":">> \o siteKey \o <<":">> \o modelKeyVal ELSE <<>>,
           IF normKey # <<>> THEN <<"n", "o", "r", "m", ":">> \o normKey ELSE <<>>,
           IF modelKeyVal # <<>> THEN <<"m", "o", "d", "e", "l", ":">> \o modelKeyVal ELSE <<>> >>

\* grab(key) ?? ... : the value under the first key that is set and is in
\* the map, or undefined
FirstGrabbed(map, keys) ==
    IF \A i \in 1..Len(keys) : keys[i] = <<>> \/ keys[i] \notin DOMAIN map
    THEN Undefined
    ELSE map[keys[SetMin({i \in 1..Len(keys) :
                             keys[i] # <<>> /\ keys[i] \in DOMAIN map})]]

\* A variant that prefers the title to the site and title
lookupComparePriceTitleFirst(map, title, site, url) ==
    FirstGrabbed(map, [i \in 1..6 |->
                         CompareKeys(title, site, url)[
                            CASE i = 2 -> 3 [] i = 3 -> 2 [] OTHER -> i]])

\* main.js lookupComparePrice(title, site, url)
lookupComparePrice(map, title, site, url) ==
    FirstGrabbed(map, CompareKeys(title, site, url))

\* processComparisonFile: the price of a row, or null if it has none
RowPrice(price) ==
    IF price.t = "str" THEN parseMoney(price)
    ELSE IF IsFinite(price) THEN price
    ELSE Null

\* processComparisonFile: the map with the keys of one row added
WithRow(map, row) ==
    IF trim(row.title) = <<>> \/ RowPrice(row.price) = Null THEN map
    ELSE [key \in DOMAIN map \cup
                    (Range(CompareKeys(row.title, row.site, row.url)) \ {<<>>})
             |-> IF key \in Range(CompareKeys(row.title, row.site, row.url))
                 THEN RowPrice(row.price)
                 ELSE map[key]]

RECURSIVE MapOfRows(_)
\* processComparisonFile: the map of the rows of the file, later rows
\* overwriting earlier ones
MapOfRows(rows) ==
    IF rows = <<>> THEN <<>>
    ELSE WithRow(MapOfRows(SubSeq(rows, 1, Len(rows) - 1)), rows[Len(rows)])

\* The rows a comparison file may hold
CompareRows ==
    { [title |-> <<"i", "P", "h", "o", "n", "e", " ", "1", "5", " ", "L", "C", "D">>, price |-> Num(500, 0),
       site |-> <<"A", "c", "m", "e">>, url |-> <<"h", "t", "t", "p", "s", ":", "/", "/", "a", ".", "t", "e", "s", "t", "/", "1">>],
      [title |-> <<"I", "P", "H", "O", "N", "E", " ", "1", "5", " ", "L", "C", "D">>, price |-> Num(700, 0),
       site |-> <<>>, url |-> <<>>],
      [title |-> <<"G", "a", "l", "a", "x", "y", " ", "A", "5", "2">>, price |-> Num(0, 0),
       site |-> <<"Z", "e", "n">>, url |-> <<>>],
      [title |-> <<"i", "p", "h", "o", "n", "e", " ", "1", "5", " ", "l", "c", "d">>, price |-> Text(<<"$", "4", ".", "0", "0">>),
       site |-> <<"a", "c", "m", "e">>, url |-> <<>>],
      [title |-> <<"L", "C", "D">>, price |-> Null, site |-> <<"a", "c", "m", "e">>, url |-> <<>>] }

\* The files: up to MaxRows rows in some order
CompareFiles ==
    UNION {[1..n -> CompareRows] : n \in 0..MaxRows}

\* The items whose comparison price the table looks up
CompareItems ==
    [title : {<<>>, <<" ", "i", "P", "h", "o", "n", "e", " ", "1", "5", " ", "L", "C", "D", " ">>, <<"i", "p", "h", "o", "n", "e", " ", "1", "5", " ", "d", "i", "s", "p", "l", "a", "y">>,
              <<"G", "a", "l", "a", "x", "y", " ", "A", "5", "2", " ", "F", "r", "a", "m", "e">>, <<"P", "i", "x", "e", "l", " ", "8">>},
     site : {<<>>, <<"A", "C", "M", "E">>, <<"z", "e", "n">>},
     url : {<<>>, <<"h", "t", "t", "p", "s", ":", "/", "/", "A", ".", "t", "e", "s", "t", "/", "1">>}]

CompareFrame == UNCHANGED <<ledgerVars, renderVars, normVars, listVars, historyVars, jobVars, progressVars, themeVars, savedVars, cleanupVars, categoryVars>>

\* render(): the comparison price of the item on display, if there is one
ShownPrice(map, item) ==
    IF item = NotLoaded THEN NotLoaded
    ELSE lookupComparePrice(map, item.title, item.site, item.url)

\* The extractor page has loaded: the comparison map is empty and no item
\* is on display
CompareInit ==
    /\ LedgerEmpty
    /\ RenderIdle
    /\ NormIdle
    /\ ListIdle
    /\ HistoryIdle
    /\ JobIdle
    /\ ProgressIdle
    /\ ThemeIdle
    /\ SavedIdle
    /\ CleanupIdle
    /\ CategoryIdle
    /\ compareMap = <<>>
    /\ cmpItem = NotLoaded
    /\ cmpPrice = NotLoaded
    /\ cmpUpload = "none"

\* Results arrive and render() shows an item with its comparison price
ShowItem ==
    /\ \E item \in CompareItems :
          /\ cmpItem' = item
          /\ cmpPrice' = ShownPrice(compareMap, item)
    /\ UNCHANGED <<compareMap, cmpUpload>>
    /\ CompareFrame

\* processComparisonFile with a file of another type: the map is emptied
UnsupportedFileChosen ==
    /\ cmpUpload = "none"
    /\ compareMap' = <<>>
    /\ cmpPrice' = ShownPrice(<<>>, cmpItem)
    /\ UNCHANGED <<cmpItem, cmpUpload>>
    /\ CompareFrame

\* processComparisonFile with a CSV or XLSX file: the map is emptied and the
\* file is sent
ComparisonFileChosen ==
    /\ cmpUpload = "none"
    /\ compareMap' = <<>>
    /\ cmpPrice' = ShownPrice(<<>>, cmpItem)
    /\ cmpUpload' = "sending"
    /\ UNCHANGED cmpItem
    /\ CompareFrame

\* processComparisonFile: the server answers with the rows of the file
UploadSucceeds ==
    /\ cmpUpload = "sending"
    /\ \E rows \in CompareFiles :
          /\ compareMap' = MapOfRows(rows)
          /\ cmpPrice' = ShownPrice(MapOfRows(rows), cmpItem)
    /\ cmpUpload' = "none"
    /\ UNCHANGED cmpItem
    /\ CompareFrame

\* processComparisonFile: the upload fails
UploadFails ==
    /\ cmpUpload = "sending"
    /\ compareMap' = <<>>
    /\ cmpPrice' = ShownPrice(<<>>, cmpItem)
    /\ cmpUpload' = "none"
    /\ UNCHANGED cmpItem
    /\ CompareFrame

CompareNext ==
    \/ ShowItem
    \/ UnsupportedFileChosen
    \/ ComparisonFileChosen
    \/ UploadSucceeds
    \/ UploadFails

SpecCompare == CompareInit /\ [][CompareNext]_vars

\* The keys of the item on display, by the name the lookup gives each
ItemKey(kind) ==
    CompareKeys(cmpItem.title, cmpItem.site, cmpItem.url)[
        CASE kind = "url" -> 1 [] kind = "site+title" -> 2
          [] kind = "title" -> 3 [] kind = "site+model" -> 4
          [] kind = "normalized title" -> 5 [] kind = "model" -> 6]

\* The priority order of the keys
KeyPriority ==
    <<"url", "site+title", "title", "site+model", "normalized title", "model">>

\* The keys of the item on display that exist in the comparison map, as
\* their places in the priority order
ExistingKeys ==
    {i \in 1..Len(KeyPriority) : ItemKey(KeyPriority[i]) \in DOMAIN compareMap}

\* C22: the comparison price of an item is the value stored under the first
\* of its keys that exists in the comparison map, in the order URL,
\* site+title, title, site+model, normalized title, model, and is absent
\* only when none of those keys exists
C22_FirstExistingKeyWins ==
    cmpItem # NotLoaded =>
        /\ ExistingKeys # {} =>
              cmpPrice = compareMap[ItemKey(KeyPriority[SetMin(ExistingKeys)])]
        /\ cmpPrice = Undefined <=> ExistingKeys = {}

\* The item of site ACME titled ' iPhone 15 LCD ' without a url, where the
\* file held that title for 5.00 at Acme and then for 7.00 at no site: the
\* site+title key holds 5.00, the title key 7.00, and 5.00 is shown
C22_Witness ==
    /\ cmpItem = [title |-> <<" ", "i", "P", "h", "o", "n", "e", " ", "1", "5", " ", "L", "C", "D", " ">>, site |-> <<"A", "C", "M", "E">>, url |-> <<>>]
    /\ <<"s", "i", "t", "e", ":", "a", "c", "m", "e", ":", "i", "p", "h", "o", "n", "e", " ", "1", "5", " ", "l", "c", "d">> \in DOMAIN compareMap
    /\ <<"t", "i", "t", "l", "e", ":", "i", "p", "h", "o", "n", "e", " ", "1", "5", " ", "l", "c", "d">> \in DOMAIN compareMap
    /\ compareMap[<<"s", "i", "t", "e", ":", "a", "c", "m", "e", ":", "i", "p", "h", "o", "n", "e", " ", "1", "5", " ", "l", "c", "d">>] = Num(500, 0)
    /\ compareMap[<<"t", "i", "t", "l", "e", ":", "i", "p", "h", "o", "n", "e", " ", "1", "5", " ", "l", "c", "d">>] = Num(700, 0)
    /\ cmpPrice = Num(500, 0)

-----------------------------------------------------------------------------
(* The cleanup dialog of the history page (unnamed/part_000 cleanupModal) *)

\* cleanupModal.currentDays at the start, and the days taken for a days
\* input that is empty, zero or no number
DefaultDays == 90

\* The days from which the dialog speaks of all history sessions
DeleteAllDays == 99999

\* The days of the quick buttons; the last one is the delete-all option
QuickDays == {7, 30, DefaultDays, DeleteAllDays}

\* What may be typed into the days input
DaysTexts ==
    {<<>>, <<"0">>, <<"1">>, <<"3", "0">>, <<" ", "7", ".", "9">>, <<"-", "5">>, <<"9", "9", "9", "9", "9">>, <<"a", "b", "c">>}

\* The day of the cleanup, and the days the date picker may hold: the two
\* days before it, the day itself and the two days after it
CleanupToday == 2
CleanupDates == {Day(d) : d \in (CleanupToday - 2)..(CleanupToday + 2)}

\* The hours of the day at which the date may be picked
PickHours == {9, 21}

\* String(n) for a whole number
IntToText(n) == IF n < 0 THEN <<"-">> \o NatToDigits(-n) ELSE NatToDigits(n)

\* The string without its sign
Unsigned(s) == IF s # <<>> /\ s[1] \in {"-", "+"} THEN Tail(s) ELSE s

\* The digits a string starts with
LeadingDigits(s) ==
    SubSeq(s, 1, SetMax({n \in 0..Len(s) : \A i \in 1..n : IsDigit(s[i])}))

\* parseInt(s): the whole number the trimmed string starts with, as a number
\* of days, or NaN
parseInt(s) ==
    IF LeadingDigits(Unsigned(trim(s))) = <<>> THEN NaN
    ELSE IF trim(s)[1] = "-"
    THEN Num(-100 * DigitsValue(LeadingDigits(Unsigned(trim(s)))), 0)
    ELSE Num(100 * DigitsValue(LeadingDigits(Unsigned(trim(s)))), 0)

\* parseInt(e.target.value) || 90
TypedDays(s) ==
    IF IsFalsy(parseInt(s)) THEN DefaultDays ELSE parseInt(s).c \div 100

\* Math.ceil((today - new Date(value)) / (1000 * 60 * 60 * 24)), where the
\* date of the picker is the first hour of its day
diffDays(clock, date) == CeilDiv(clock - DayHours * date.d, DayHours)

\* cleanupModal.updatePreview(): what the preview announces
updatePreview(days, date) ==
    IF days >= DeleteAllDays THEN [deletes |-> "all"]
    ELSE IF date # Text(<<>>) THEN [deletes |-> "before", date |-> date]
    ELSE [deletes |-> "older", days |-> days]

CleanupFrame == UNCHANGED <<ledgerVars, renderVars, normVars, listVars, historyVars, jobVars, progressVars, themeVars, savedVars, compareVars, categoryVars>>

\* The history page has loaded: the dialog is hidden and holds 90 days
CleanupInit ==
    /\ LedgerEmpty
    /\ RenderIdle
    /\ NormIdle
    /\ ListIdle
    /\ HistoryIdle
    /\ JobIdle
    /\ ProgressIdle
    /\ ThemeIdle
    /\ SavedIdle
    /\ CompareIdle
    /\ CategoryIdle
    /\ cleanupShown = FALSE
    /\ currentDays = DefaultDays
    /\ daysInputValue = Text(IntToText(DefaultDays))
    /\ dateInputValue = Text(<<>>)
    /\ cleanupOption = "default"
    /\ cleanupDialog = "none"
    /\ cleanupSent = NotLoaded
    /\ cleanupClock \in {DayHours * CleanupToday + h : h \in PickHours}
    /\ previewText = Text(<<>>)

\* The Cleanup button: showCleanupModal
showCleanupModal ==
    /\ cleanupDialog = "none"
    /\ ~cleanupShown
    /\ cleanupShown' = TRUE
    /\ previewText' = updatePreview(currentDays, dateInputValue)
    /\ UNCHANGED <<currentDays, daysInputValue, dateInputValue, cleanupOption,
                   cleanupDialog, cleanupSent, cleanupClock>>
    /\ CleanupFrame

\* The close button, the cancel button or a click beside the dialog: hide()
hideCleanupModal ==
    /\ cleanupDialog = "none"
    /\ cleanupShown
    /\ cleanupShown' = FALSE
    /\ UNCHANGED <<currentDays, daysInputValue, dateInputValue, cleanupOption,
                   cleanupDialog, cleanupSent, cleanupClock, previewText>>
    /\ CleanupFrame

\* A quick button
QuickButtonClicked ==
    /\ cleanupDialog = "none"
    /\ cleanupShown
    /\ \E days \in QuickDays :
          /\ currentDays' = days
          /\ daysInputValue' = Text(IntToText(days))
          /\ cleanupOption' = IF days = DeleteAllDays THEN "delete-all" ELSE "quick"
          /\ previewText' = updatePreview(days, Text(<<>>))
    /\ dateInputValue' = Text(<<>>)
    /\ UNCHANGED <<cleanupShown, cleanupDialog, cleanupSent, cleanupClock>>
    /\ CleanupFrame

\* The days input: input
DaysTyped ==
    /\ cleanupDialog = "none"
    /\ cleanupShown
    /\ \E text \in DaysTexts :
          /\ daysInputValue' = Text(text)
          /\ currentDays' = TypedDays(text)
          /\ previewText' = updatePreview(TypedDays(text), Text(<<>>))
    /\ dateInputValue' = Text(<<>>)
    /\ cleanupOption' = "days"
    /\ UNCHANGED <<cleanupShown, cleanupDialog, cleanupSent, cleanupClock>>
    /\ CleanupFrame

\* The date picker: change, with a date
DatePicked ==
    /\ cleanupDialog = "none"
    /\ cleanupShown
    /\ \E date \in CleanupDates :
          /\ dateInputValue' = date
          /\ currentDays' = diffDays(cleanupClock, date)
          /\ daysInputValue' = Text(IntToText(diffDays(cleanupClock, date)))
          /\ previewText' = updatePreview(diffDays(cleanupClock, date), date)
    /\ cleanupOption' = "date"
    /\ UNCHANGED <<cleanupShown, cleanupDialog, cleanupSent, cleanupClock>>
    /\ CleanupFrame

\* The date picker: change, with the date removed
DateRemoved ==
    /\ cleanupDialog = "none"
    /\ cleanupShown
    /\ dateInputValue # Text(<<>>)
    /\ dateInputValue' = Text(<<>>)
    /\ UNCHANGED <<cleanupShown, currentDays, daysInputValue, cleanupOption,
                   cleanupDialog, cleanupSent, cleanupClock, previewText>>
    /\ CleanupFrame

\* The confirm button: executeCleanup asks with confirm()
executeCleanup ==
    /\ cleanupDialog = "none"
    /\ cleanupShown
    /\ cleanupDialog' = "asking"
    /\ UNCHANGED <<cleanupShown, currentDays, daysInputValue, dateInputValue,
                   cleanupOption, cleanupSent, cleanupClock, previewText>>
    /\ CleanupFrame

\* executeCleanup: the user answers no, and nothing is sent
CleanupDeclined ==
    /\ cleanupDialog = "asking"
    /\ cleanupDialog' = "none"
    /\ UNCHANGED <<cleanupShown, currentDays, daysInputValue, dateInputValue,
                   cleanupOption, cleanupSent, cleanupClock, previewText>>
    /\ CleanupFrame

\* executeCleanup: the user answers yes; the dialog is hidden and
\* POST /api/cleanup is sent with {days: currentDays}
CleanupConfirmed ==
    /\ cleanupDialog = "asking"
    /\ cleanupDialog' = "none"
    /\ cleanupShown' = FALSE
    /\ cleanupSent' = [days |-> currentDays, option |-> cleanupOption]
    /\ UNCHANGED <<currentDays, daysInputValue, dateInputValue, cleanupOption,
                   cleanupClock, previewText>>
    /\ CleanupFrame

CleanupNext ==
    \/ showCleanupModal
    \/ hideCleanupModal
    \/ QuickButtonClicked
    \/ DaysTyped
    \/ DatePicked
    \/ DateRemoved
    \/ executeCleanup
    \/ CleanupDeclined
    \/ CleanupConfirmed

SpecCleanup == CleanupInit /\ [][CleanupNext]_vars

\* A cleanup request is sent only in answer to the confirmation
SentOnlyWhenConfirmed ==
    cleanupSent' # cleanupSent => cleanupDialog = "asking"

\* The request sent last keeps sessions of the last day at least, and asks
\* for the removal of all sessions only from the delete-all option
SentThresholdSafe ==
    cleanupSent # NotLoaded =>
        /\ cleanupSent.days >= 1
        /\ cleanupSent.days >= DeleteAllDays => cleanupSent.option = "delete-all"

\* C23: every cleanup request of the history page follows a confirmation by
\* the user and carries a threshold of at least 1 day, whatever the date
\* picker and the days input hold, a future date included; only the
\* delete-all option sends the threshold that removes all sessions
C23_CleanupConfirmedAndBounded ==
    []SentThresholdSafe /\ [][SentOnlyWhenConfirmed]_vars

\* A cleanup of 0 days has been sent after the date picker was set to the
\* day after today
C23_Witness ==
    /\ cleanupSent = [days |-> 0, option |-> "date"]
    /\ dateInputValue = Day(CleanupToday + 1)
    /\ currentDays = 0
    /\ daysInputValue = Text(<<"0">>)

-----------------------------------------------------------------------------
(* The category picker of the dashboard (results.js) *)

CategoryFrame == UNCHANGED <<ledgerVars, renderVars, normVars, listVars, historyVars, jobVars, progressVars, themeVars, savedVars, compareVars, cleanupVars>>

\* The clients the dashboard can be switched between
DashboardClients == {"mobilesentrix", "xcellparts"}

\* The categories the drawer lists, in the order of the list
CategoryList == <<<<"/", "L", "C", "D", "/">>, <<"/", "G", "l", "a", "s", "s">>>>

\* new Map()
EmptyMap == <<>>

\* map.set(key, value) and map.delete(key)
MapSet(map, key, value) ==
    [k \in DOMAIN map \cup {key} |-> IF k = key THEN value ELSE map[k]]
MapDelete(map, key) == [k \in DOMAIN map \ {key} |-> map[k]]

\* Array.from(map.values()), as a set: the values of a selection have keys
\* of their own, so their order decides nothing
MapValues(map) == {map[k] : k \in DOMAIN map}

\* normalizeCategoryUrl(url): trimmed, without slashes at the end, lower case
normalizeCategoryUrl(url) ==
    toLowerCase(SubSeq(trim(url), 1,
                       SetMax({n \in 0..Len(trim(url)) :
                                  n = 0 \/ trim(url)[n] # "/"})))

\* setSelectedCategories(client, urls): the map of the urls that are not blank
setSelectedCategories(urls) ==
    [k \in {normalizeCategoryUrl(trim(u)) : u \in {v \in urls : trim(v) # <<>>}}
       |-> trim(CHOOSE u \in urls : normalizeCategoryUrl(trim(u)) = k)]

\* ensureCategorySelectionStore(client): the selections with a map for the
\* client
ensureCategorySelectionStore(selections, client) ==
    IF client \in DOMAIN selections THEN selections
    ELSE MapSet(selections, client, EmptyMap)

\* getSelectedCategories(client), as the map: the committed selection
SelectionIn(selections, client) ==
    IF client \in DOMAIN selections THEN selections[client] ELSE EmptyMap

\* pendingCategorySelection ? pendingCategorySelection : new Map(store)
WorkingSelection ==
    IF pendingCategorySelection # Null THEN pendingCategorySelection.map
    ELSE SelectionIn(categorySelections, selectedClient)

RECURSIVE WithAll(_, _)
\* selectAllVisibleCategories: source.forEach(working.set)
WithAll(map, list) ==
    IF list = <<>> THEN map
    ELSE WithAll(MapSet(map, normalizeCategoryUrl(Head(list)), Head(list)),
                 Tail(list))

\* syncJobCategorySelection(jobData): the selections after it
syncJobCategorySelection(selections, jobData) ==
    IF jobData = NoJob THEN selections
    ELSE MapSet(selections, jobData.client,
                setSelectedCategories(jobData.selected_categories))

\* The dashboard has loaded: the constructor, initCategoryControls and the
\* first loadDashboard
CategoryInit ==
    /\ LedgerEmpty
    /\ RenderIdle
    /\ NormIdle
    /\ ListIdle
    /\ HistoryIdle
    /\ JobIdle
    /\ ProgressIdle
    /\ ThemeIdle
    /\ SavedIdle
    /\ CompareIdle
    /\ CleanupIdle
    /\ selectedClient = "mobilesentrix"
    /\ categorySelections = ensureCategorySelectionStore(EmptyMap, "mobilesentrix")
    /\ pendingCategorySelection = Null
    /\ categoryDrawerOpen = FALSE
    /\ drawerClient = "none"
    /\ appliedSelection = EmptyMap
    /\ summaryRequests = {"mobilesentrix"}
    /\ latestJob = NoJob

\* The picker button: openCategoryDrawer
openCategoryDrawer ==
    /\ ~categoryDrawerOpen
    /\ categoryDrawerOpen' = TRUE
    /\ categorySelections' =
          ensureCategorySelectionStore(categorySelections, selectedClient)
    /\ pendingCategorySelection' =
          [map |-> SelectionIn(categorySelections, selectedClient)]
    /\ drawerClient' = selectedClient
    /\ UNCHANGED <<selectedClient, appliedSelection, summaryRequests, latestJob>>
    /\ CategoryFrame

\* The close button, the backdrop or Escape: closeCategoryDrawer
closeCategoryDrawer ==
    /\ categoryDrawerOpen
    /\ categoryDrawerOpen' = FALSE
    /\ pendingCategorySelection' = Null
    /\ UNCHANGED <<selectedClient, categorySelections, drawerClient,
                   appliedSelection, summaryRequests, latestJob>>
    /\ CategoryFrame

\* A checkbox of the list: togglePendingCategory(url, shouldSelect)
togglePendingCategory ==
    /\ categoryDrawerOpen
    /\ \E i \in DOMAIN CategoryList, shouldSelect \in BOOLEAN :
          pendingCategorySelection' =
             [map |-> IF shouldSelect
                      THEN MapSet(WorkingSelection,
                                  normalizeCategoryUrl(CategoryList[i]),
                                  CategoryList[i])
                      ELSE MapDelete(WorkingSelection,
                                     normalizeCategoryUrl(CategoryList[i]))]
    /\ categorySelections' =
          IF pendingCategorySelection # Null THEN categorySelections
          ELSE ensureCategorySelectionStore(categorySelections, selectedClient)
    /\ UNCHANGED <<selectedClient, categoryDrawerOpen, drawerClient,
                   appliedSelection, summaryRequests, latestJob>>
    /\ CategoryFrame

\* The Select All button: selectAllVisibleCategories
selectAllVisibleCategories ==
    /\ categoryDrawerOpen
    /\ pendingCategorySelection' = [map |-> WithAll(WorkingSelection, CategoryList)]
    /\ categorySelections' =
          IF pendingCategorySelection # Null THEN categorySelections
          ELSE ensureCategorySelectionStore(categorySelections, selectedClient)
    /\ UNCHANGED <<selectedClient, categoryDrawerOpen, drawerClient,
                   appliedSelection, summaryRequests, latestJob>>
    /\ CategoryFrame

\* The Clear button: clearPendingCategorySelection
clearPendingCategorySelection ==
    /\ categoryDrawerOpen
    /\ pendingCategorySelection' = [map |-> EmptyMap]
    /\ UNCHANGED <<selectedClient, categorySelections, categoryDrawerOpen,
                   drawerClient, appliedSelection, summaryRequests, latestJob>>
    /\ CategoryFrame

\* The Apply button: applyCategorySelection, which closes the drawer
applyCategorySelection ==
    /\ categoryDrawerOpen
    /\ categorySelections' =
          MapSet(categorySelections, selectedClient, WorkingSelection)
    /\ appliedSelection' =
          MapSet(appliedSelection, selectedClient, WorkingSelection)
    /\ pendingCategorySelection' = Null
    /\ categoryDrawerOpen' = FALSE
    /\ UNCHANGED <<selectedClient, drawerClient, summaryRequests, latestJob>>
    /\ CategoryFrame

\* The client selector or the client toggle: switchClient(nextClient) and
\* handleClientChange, which closes the drawer and loads the dashboard
switchClient ==
    /\ \E nextClient \in DashboardClients \ {selectedClient} :
          /\ selectedClient' = nextClient
          /\ categorySelections' =
                ensureCategorySelectionStore(categorySelections, nextClient)
          /\ summaryRequests' = summaryRequests \cup {nextClient}
    /\ categoryDrawerOpen' = FALSE
    /\ pendingCategorySelection' = Null
    /\ UNCHANGED <<drawerClient, appliedSelection, latestJob>>
    /\ CategoryFrame

\* startPolling: every 5 seconds loadSummary asks for the summary of the
\* current client
PollSummary ==
    /\ summaryRequests' = summaryRequests \cup {selectedClient}
    /\ UNCHANGED <<selectedClient, categorySelections, pendingCategorySelection,
                   categoryDrawerOpen, drawerClient, appliedSelection, latestJob>>
    /\ CategoryFrame

\* loadSummary: the summary of a client arrives, with that client as the
\* active one and with the latest job, if there is one
SummaryLoaded ==
    /\ \E client \in summaryRequests :
          /\ summaryRequests' = summaryRequests \ {client}
          /\ selectedClient' = client
          /\ categorySelections' =
                syncJobCategorySelection(
                    ensureCategorySelectionStore(categorySelections, client),
                    latestJob)
    /\ UNCHANGED <<pendingCategorySelection, categoryDrawerOpen, drawerClient,
                   appliedSelection, latestJob>>
    /\ CategoryFrame

\* loadSummary: the request fails
SummaryFailed ==
    /\ \E client \in summaryRequests :
          summaryRequests' = summaryRequests \ {client}
    /\ UNCHANGED <<selectedClient, categorySelections, pendingCategorySelection,
                   categoryDrawerOpen, drawerClient, appliedSelection, latestJob>>
    /\ CategoryFrame

\* startScrape, accepted: the job of the current client, with the committed
\* selection as its config.selected_categories
ScrapeStarted ==
    /\ latestJob' =
          [job_id |-> "job-1", client |-> selectedClient, status |-> "running",
           selected_categories |->
              MapValues(SelectionIn(categorySelections, selectedClient))]
    /\ categorySelections' =
          ensureCategorySelectionStore(categorySelections, selectedClient)
    /\ UNCHANGED <<selectedClient, pendingCategorySelection, categoryDrawerOpen,
                   drawerClient, appliedSelection, summaryRequests>>
    /\ CategoryFrame

\* The job ends on the server
ScrapeEnds ==
    /\ latestJob # NoJob
    /\ latestJob.status = "running"
    /\ latestJob' = [latestJob EXCEPT !.status = "done"]
    /\ UNCHANGED <<selectedClient, categorySelections, pendingCategorySelection,
                   categoryDrawerOpen, drawerClient, appliedSelection,
                   summaryRequests>>
    /\ CategoryFrame

\* pollJobStatus and pollJobStatusSilent: the status of the job arrives; for
\* a job that has ended, loadDashboard asks for the summary
JobStatusUpdated ==
    /\ latestJob # NoJob
    /\ summaryRequests' =
          IF latestJob.status = "running" THEN summaryRequests
          ELSE summaryRequests \cup {selectedClient}
    /\ UNCHANGED <<selectedClient, categorySelections, pendingCategorySelection,
                   categoryDrawerOpen, drawerClient, appliedSelection, latestJob>>
    /\ CategoryFrame

CategoryNext ==
    \/ openCategoryDrawer
    \/ closeCategoryDrawer
    \/ togglePendingCategory
    \/ selectAllVisibleCategories
    \/ clearPendingCategorySelection
    \/ applyCategorySelection
    \/ switchClient
    \/ PollSummary
    \/ SummaryLoaded
    \/ SummaryFailed
    \/ ScrapeStarted
    \/ ScrapeEnds
    \/ JobStatusUpdated

SpecCategory == CategoryInit /\ [][CategoryNext]_vars

\* The committed selection of no client changes in the step
SelectionsKept ==
    \A c \in DashboardClients :
       SelectionIn(categorySelections', c) = SelectionIn(categorySelections, c)

\* The drawer is closed by its close button, the backdrop or Escape, or by
\* a switch of the client
ClosedWithoutApply ==
    closeCategoryDrawer \/ (categoryDrawerOpen /\ switchClient)

\* Apply leaves the committed selection of every client but the one the
\* drawer was opened for as it was
AppliedToDrawerClient ==
    \A c \in DashboardClients \ {drawerClient} :
       SelectionIn(categorySelections', c) = SelectionIn(categorySelections, c)

\* C27: closing the category drawer without Apply leaves the committed
\* selection of every client unchanged, and Apply replaces only the committed
\* selection of the client for which the drawer was opened
C27_DrawerTouchesOnlyItsClient ==
    [][/\ ClosedWithoutApply => SelectionsKept
       /\ applyCategorySelection => AppliedToDrawerClient]_vars

\* The drawer opened for xcellparts is open with LCD ticked, and a summary
\* asked for before the switch has made mobilesentrix the current client:
\* Apply now writes the selection of mobilesentrix
C27_Witness ==
    /\ categoryDrawerOpen
    /\ drawerClient = "xcellparts"
    /\ selectedClient = "mobilesentrix"
    /\ pendingCategorySelection = [map |-> setSelectedCategories({<<"/", "L", "C", "D", "/">>})]
    /\ SelectionIn(categorySelections, "mobilesentrix") = EmptyMap

\* The committed selection of every client is the one the user applied
\* last, if the user applied one
AppliedSelectionsKept ==
    \A c \in DOMAIN appliedSelection :
       SelectionIn(categorySelections, c) = appliedSelection[c]

\* C28: a client's committed category selection changes only through the
\* user's Apply in the drawer; summary polling and job status updates never
\* modify a selection the user has applied
C28_SelectionChangesOnlyByApply ==
    /\ []AppliedSelectionsKept
    /\ [][~SelectionsKept => applyCategorySelection]_vars

\* The user applied Glass for mobilesentrix while the latest job had been
\* started with LCD, and the committed selection is LCD again
C28_Witness ==
    /\ "mobilesentrix" \in DOMAIN appliedSelection
    /\ appliedSelection["mobilesentrix"] = setSelectedCategories({<<"/", "G", "l", "a", "s", "s">>})
    /\ latestJob # NoJob
    /\ latestJob.client = "mobilesentrix"
    /\ latestJob.selected_categories = {<<"/", "L", "C", "D", "/">>}
    /\ SelectionIn(categorySelections, "mobilesentrix") = setSelectedCategories({<<"/", "L", "C", "D", "/">>})
    /\ ~categoryDrawerOpen

====
